---- MODULE Spec2Model ----
(***************************************************************************)
(* Jobly: the partial-update fragment builder (helpers/sql.js), the        *)
(* filtered findAll of the Company and Job models, the get, create,        *)
(* update and remove functions of the Company, Job and User models, and    *)
(* the GET /jobs handler, over a small relational store.                   *)
(*                                                                         *)
(* The repository holds two revisions of the Company model                 *)
(* (src/models/company.js and src/unnamed/part_001) and two of the Job     *)
(* model (src/models/job.js and src/Jobly/models/job.js).  Both are        *)
(* modelled; a call names the revision it runs.                            *)
(*                                                                         *)
(* Representation.                                                         *)
(*  - A JavaScript value is a tagged record (Undefined, Null, Num, Str,    *)
(*    Bool).  The characters of a JavaScript string are a sequence of      *)
(*    one-character strings, so that pattern matching can look inside.     *)
(*  - A JavaScript object used as a mapping is the sequence of its         *)
(*    [key, val] entries in iteration order (the order of Object.keys and  *)
(*    Object.values).                                                      *)
(*  - SQL text is a sequence of atoms (TLA+ strings).  The atom " " stands *)
(*    for one run of whitespace; string concatenation is \o.               *)
(***************************************************************************)
EXTENDS Integers, Sequences, FiniteSets, TLC

VARIABLES companies, jobs, users, applications, jobSeq, writes, call, outcome,
          dispatched

vars == <<companies, jobs, users, applications, jobSeq, writes, call, outcome,
          dispatched>>

\* the rows of the four tables; jobSeq is the next value of jobs.id
store == <<companies, jobs, users, applications>>

(***************************************************************************)
(* Bounds                                                                  *)
(***************************************************************************)
\* the largest number of fields in one update mapping
MaxFields == 2

\* the largest number of updates and removals of a run that change the store
MaxWrites == 1

\* the largest number of rows a run inserts
MaxCreates == 2

(***************************************************************************)
(* JavaScript values                                                       *)
(***************************************************************************)
Undefined == [type |-> "undefined"]
Null == [type |-> "null"]
Num(n) == [type |-> "number", val |-> n]
Str(chars) == [type |-> "string", val |-> chars]
Bool(b) == [type |-> "boolean", val |-> b]

WS == " "

\* the entries of a mapping
ObjKeys(obj) == [i \in 1..Len(obj) |-> obj[i].key]

ObjValues(obj) == [i \in 1..Len(obj) |-> obj[i].val]

\* Array.prototype.join
RECURSIVE Join(_, _)
Join(parts, sep) ==
    IF Len(parts) = 0 THEN <<>>
    ELSE IF Len(parts) = 1 THEN parts[1]
    ELSE parts[1] \o sep \o Join(Tail(parts), sep)

(***************************************************************************)
(* helpers/sql.js                                                          *)
(***************************************************************************)
NoEmptyCheck(keys) == FALSE

\* if (keys.length === 0) throw new BadRequestError("No data")
NoData(keys) == Len(keys) = 0

ColNameIgnoresAlias(jsToSql, colName) == colName

\* jsToSql[colName] || colName : jsToSql maps keys to column names, and an
\* empty column name is falsy
ColName(jsToSql, colName) ==
    IF colName \in DOMAIN jsToSql /\ jsToSql[colName] # ""
    THEN jsToSql[colName]
    ELSE colName

PlaceholderOffByOne(n) == "$" \o ToString(n - 1)

\* `$${n}`
Placeholder(n) == "$" \o ToString(n)

\* `"${jsToSql[colName] || colName}"=$${idx + 1}`, idx counted from 0
Col(jsToSql, colName, idx) ==
    <<"\"", ColName(jsToSql, colName), "\"", "=", Placeholder(idx + 1)>>

sqlForPartialUpdate(dataToUpdate, jsToSql) ==
    LET keys == ObjKeys(dataToUpdate)
        cols == [i \in 1..Len(keys) |-> Col(jsToSql, keys[i], i - 1)]
    IN  IF NoData(keys)
        THEN [error |-> "BadRequestError", message |-> "No data"]
        ELSE [error |-> "none",
              setCols |-> Join(cols, <<",", WS>>),
              values |-> ObjValues(dataToUpdate)]

(***************************************************************************)
(* Characters and strings                                                  *)
(***************************************************************************)
\* the characters used in stored and supplied text, in code-point order
Alphabet == <<"$", "%", "0", "1", "2", "9", "B", "C", "J", "N", "O", "b", "c", "j", "o">>

Rank(ch) == CHOOSE i \in 1..Len(Alphabet) : Alphabet[i] = ch

Lower(ch) ==
    CASE ch = "B" -> "b"
      [] ch = "C" -> "c"
      [] ch = "J" -> "j"
      [] ch = "N" -> "n"
      [] ch = "O" -> "o"
      [] OTHER -> ch

LowerAll(chars) == [i \in 1..Len(chars) |-> Lower(chars[i])]

\* lexicographic order on character sequences
RECURSIVE CharsLess(_, _)
CharsLess(a, b) ==
    IF Len(b) = 0 THEN FALSE
    ELSE IF Len(a) = 0 THEN TRUE
    ELSE IF Head(a) = Head(b) THEN CharsLess(Tail(a), Tail(b))
    ELSE Rank(Head(a)) < Rank(Head(b))
JsGreaterOrEqual(a, b) ==
    IF a.type = "number" /\ b.type = "number" THEN a.val >= b.val
    ELSE a.type = "string" /\ b.type = "string" /\ ~ CharsLess(a.val, b.val)

\* a > b in JavaScript: numbers compare numerically, two strings compare
\* by code units, a comparison with undefined is false
JsGreater(a, b) ==
    IF a.type = "number" /\ b.type = "number" THEN a.val > b.val
    ELSE IF a.type = "string" /\ b.type = "string" THEN CharsLess(b.val, a.val)
    ELSE FALSE

\* truthiness of the values that occur here
Truthy(v) ==
    CASE v.type = "undefined" -> FALSE
      [] v.type = "null" -> FALSE
      [] v.type = "boolean" -> v.val
      [] v.type = "number" -> v.val # 0
      [] v.type = "string" -> Len(v.val) > 0

\* obj[key] : the value of the entry, undefined when the key is absent
Get(obj, key) ==
    IF \E i \in 1..Len(obj) : obj[i].key = key
    THEN obj[CHOOSE i \in 1..Len(obj) : obj[i].key = key].val
    ELSE Undefined

(***************************************************************************)
(* The store: db.query(text, values) on PostgreSQL                         *)
(***************************************************************************)
Punct == {"\"", "=", ",", ">=", "<=", ">", "(", ")", "."}

\* the words of a statement: whitespace separates, punctuation stands
\* alone, and atoms written next to each other form one word
RECURSIVE LexFrom(_, _, _)
LexFrom(text, lo, hi) ==
    IF lo > hi THEN <<>>
    ELSE IF lo = hi THEN (IF text[lo] = WS THEN <<>> ELSE <<text[lo]>>)
    ELSE LET mid == (lo + hi) \div 2
             left == LexFrom(text, lo, mid)
             right == LexFrom(text, mid + 1, hi)
             plain(atom) == atom # WS /\ atom \notin Punct
         IN  IF plain(text[mid]) /\ plain(text[mid + 1])
             THEN SubSeq(left, 1, Len(left) - 1)
                  \o <<left[Len(left)] \o right[1]>> \o Tail(right)
             ELSE left \o right

Lex(text) == LexFrom(text, 1, Len(text))

\* the pieces of seq between the occurrences of the sub-sequence sep
RECURSIVE SplitBy(_, _)
SplitBy(seq, sep) ==
    LET hits == {i \in 1..(Len(seq) - Len(sep) + 1) :
                    SubSeq(seq, i, i + Len(sep) - 1) = sep}
    IN  IF hits = {} THEN <<seq>>
        ELSE LET i == CHOOSE h \in hits : \A g \in hits : h <= g
             IN  <<SubSeq(seq, 1, i - 1)>>
                 \o SplitBy(SubSeq(seq, i + Len(sep), Len(seq)), sep)

MaxParam == 9

IsParam(word) == \E n \in 1..MaxParam : word = "$" \o ToString(n)

ParamIndex(word) == CHOOSE n \in 1..MaxParam : word = "$" \o ToString(n)

\* text LIKE pat : % matches any run of characters, _ any one character
RECURSIVE Like(_, _)
Like(text, pat) ==
    IF Len(pat) = 0 THEN Len(text) = 0
    ELSE IF Head(pat) = "%"
         THEN Like(text, Tail(pat))
              \/ (Len(text) > 0 /\ Like(Tail(text), pat))
    ELSE Len(text) > 0
         /\ (Head(pat) = "_" \/ Head(pat) = Head(text))
         /\ Like(Tail(text), Tail(pat))

ILike(text, pat) == Like(LowerAll(text), LowerAll(pat))

\* The type of a column.  The schema is not part of the source; the types
\* are the ones the tests show: text comes back as a string, salary and
\* numEmployees as numbers, equity as a decimal string ("0.1"), isAdmin as
\* a boolean.
ColType(col) ==
    CASE col \in {"id", "salary", "num_employees", "job_id"} -> "integer"
      [] col = "equity" -> "numeric"
      [] col = "is_admin" -> "boolean"
      [] OTHER -> "text"

Digit(ch) == CHOOSE n \in 0..9 : ToString(n) = ch

IsDigit(ch) == \E n \in 0..9 : ToString(n) = ch

\* the decimal digits of a natural number
RECURSIVE Digits(_)
Digits(n) == IF n < 10 THEN <<ToString(n)>> ELSE Append(Digits(n \div 10), ToString(n % 10))

\* the natural number written by digits
RECURSIVE Natural(_)
Natural(chars) ==
    IF Len(chars) = 0 THEN 0
    ELSE 10 * Natural(SubSeq(chars, 1, Len(chars) - 1)) + Digit(chars[Len(chars)])

IsNatural(chars) == Len(chars) > 0 /\ \A i \in 1..Len(chars) : IsDigit(chars[i])

\* a decimal with at most one digit after the point
IsDecimal(chars) ==
    \/ IsNatural(chars)
    \/ /\ Len(chars) >= 3
       /\ chars[Len(chars) - 1] = "."
       /\ IsDigit(chars[Len(chars)])
       /\ IsNatural(SubSeq(chars, 1, Len(chars) - 2))

\* a stored number in tenths, for comparison
Tenths(v) ==
    IF v.type = "number" THEN 10 * v.val
    ELSE IF IsNatural(v.val) THEN 10 * Natural(v.val)
    ELSE 10 * Natural(SubSeq(v.val, 1, Len(v.val) - 2)) + Digit(v.val[Len(v.val)])

\* The driver sends a parameter as text and the store reads it as a value
\* of the column's type; what is stored is given here as the driver
\* returns it on a read.  Undefined and null are sent as NULL.
Coercible(type, v) ==
    CASE v.type \in {"undefined", "null"} -> TRUE
      [] type = "text" -> v.type \in {"string", "number", "boolean"}
      [] type = "integer" ->
            v.type = "number" \/ (v.type = "string" /\ IsNatural(v.val))
      [] type = "numeric" ->
            v.type = "number" \/ (v.type = "string" /\ IsDecimal(v.val))
      [] type = "boolean" ->
            \/ v.type = "boolean"
            \/ v.type = "string" /\ v.val \in {<<"t", "r", "u", "e">>,
                                               <<"f", "a", "l", "s", "e">>}

CoerceKeepsType(type, v) == IF v.type \in {"undefined", "null"} THEN Null ELSE v

Coerce(type, v) ==
    CASE v.type \in {"undefined", "null"} -> Null
      [] type = "text" ->
            IF v.type = "string" THEN v
            ELSE IF v.type = "number" THEN Str(Digits(v.val))
            ELSE Str(IF v.val THEN <<"t", "r", "u", "e">>
                     ELSE <<"f", "a", "l", "s", "e">>)
      [] type = "integer" ->
            IF v.type = "number" THEN v ELSE Num(Natural(v.val))
      [] type = "numeric" ->
            IF v.type = "number" THEN Str(Digits(v.val)) ELSE v
      [] type = "boolean" ->
            IF v.type = "boolean" THEN v ELSE Bool(v.val = <<"t", "r", "u", "e">>)

\* one predicate of a WHERE clause, as three words: column, operator and
\* either a parameter or the literal 0
IsCond(words, cols, values) ==
    /\ Len(words) = 3
    /\ words[1] \in cols
    /\ words[2] \in {">=", "<=", ">", "ILIKE"}
    /\ words[2] = "ILIKE" <=> ColType(words[1]) = "text"
    /\ \/ words[3] = "0"
       \/ /\ IsParam(words[3]) /\ ParamIndex(words[3]) <= Len(values)
          /\ Coercible(ColType(words[1]), values[ParamIndex(words[3])])

CondArg(words, values) ==
    IF words[3] = "0" THEN Num(0)
    ELSE Coerce(ColType(words[1]), values[ParamIndex(words[3])])

\* a comparison with NULL is not true
CondHolds(row, words, values) ==
    LET lhs == row[words[1]]
        rhs == CondArg(words, values)
    IN  CASE words[2] = "ILIKE" ->
                lhs.type = "string" /\ rhs.type = "string"
                /\ ILike(lhs.val, rhs.val)
          [] words[2] = ">=" ->
                lhs.type # "null" /\ rhs.type # "null"
                /\ Tenths(lhs) >= Tenths(rhs)
          [] words[2] = "<=" ->
                lhs.type # "null" /\ rhs.type # "null"
                /\ Tenths(lhs) <= Tenths(rhs)
          [] words[2] = ">" ->
                lhs.type # "null" /\ rhs.type # "null"
                /\ Tenths(lhs) > Tenths(rhs)

\* the parameters a list of predicates refers to
CondParams(conds) ==
    {ParamIndex(conds[i][3]) : i \in {j \in 1..Len(conds) : IsParam(conds[j][3])}}

\* the orders in which a set of rows can be returned under ORDER BY col;
\* rows that tie on col come in any order
OrderedBy(rows, col) ==
    LET n == Cardinality(rows)
    IN  {s \in [1..n -> rows] :
            /\ \A i, j \in 1..n : i # j => s[i] # s[j]
            /\ \A i \in 1..(n - 1) : ~ CharsLess(s[i + 1][col].val, s[i][col].val)}

\* SELECT <projection> FROM <table> [WHERE cond AND ...] ORDER BY col.
\* prefix is the words of the projection and FROM clause, rows the rows of
\* the FROM clause.  The result is the set of possible answers: rows in an
\* admissible order, or an error when the text is not a statement or the
\* values do not match its parameters.
DbSelect(text, values, prefix, rows, cols, orderCol) ==
    LET words == Lex(text)
        n == Len(words)
        p == Len(prefix)
        tailOk == /\ n >= p + 3
                  /\ SubSeq(words, 1, p) = prefix
                  /\ SubSeq(words, n - 2, n) = <<"ORDER", "BY", orderCol>>
        mid == SubSeq(words, p + 1, n - 3)
        conds == IF Len(mid) = 0 THEN <<>>
                 ELSE SplitBy(Tail(mid), <<"AND">>)
        ok == /\ tailOk
              /\ Len(mid) = 0 \/ Head(mid) = "WHERE"
              /\ \A i \in 1..Len(conds) : IsCond(conds[i], cols, values)
              /\ CondParams(conds) = 1..Len(values)
        hit == {r \in rows : \A i \in 1..Len(conds) : CondHolds(r, conds[i], values)}
    IN  IF ok
        THEN {[error |-> "none", rows |-> s] : s \in OrderedBy(hit, orderCol)}
        ELSE {[error |-> "DbError"]}

MatchesAny(row, keyCol, v) == TRUE

\* WHERE keyCol = $n, for the row and the value bound to $n
Matches(row, keyCol, v) == row[keyCol] = Coerce(ColType(keyCol), v)

\* UPDATE <table> SET "col"=$i, ... WHERE <keyCol> = $k RETURNING <list>.
\* The result is the new content of the table and the rows the statement
\* returns, or an error when the text is not such a statement, names a
\* column the table does not have, or the values do not match its
\* parameters.
DbUpdate(text, values, table, rows, cols, keyCol, returning) ==
    LET words == Lex(text)
        n == Len(words)
        ws == {i \in 1..n : words[i] = "WHERE"}
        w == CHOOSE i \in ws : \A j \in ws : i <= j
        sets == SplitBy(SubSeq(words, 4, w - 1), <<",">>)
        isSet(a) == /\ Len(a) = 5
                    /\ a[1] = "\"" /\ a[3] = "\"" /\ a[4] = "="
                    /\ a[2] \in cols
                    /\ IsParam(a[5]) /\ ParamIndex(a[5]) <= Len(values)
                    /\ Coercible(ColType(a[2]), values[ParamIndex(a[5])])
        key == words[w + 3]
        ok == /\ n >= 3
              /\ words[1] \in {"UPDATE", "Update"}
              /\ words[2] = table
              /\ words[3] = "SET"
              /\ ws # {}
              /\ \A i \in 1..Len(sets) : isSet(sets[i])
              /\ \A i, j \in 1..Len(sets) : i # j => sets[i][2] # sets[j][2]
              /\ n = w + 3 + Len(returning)
              /\ words[w + 1] = keyCol /\ words[w + 2] = "="
              /\ IsParam(key) /\ ParamIndex(key) <= Len(values)
              /\ Coercible(ColType(keyCol), values[ParamIndex(key)])
              /\ SubSeq(words, w + 4, n) = returning
              /\ {ParamIndex(sets[i][5]) : i \in 1..Len(sets)}
                    \cup {ParamIndex(key)} = 1..Len(values)
        newVal(row, c) ==
            IF \E i \in 1..Len(sets) : sets[i][2] = c
            THEN Coerce(ColType(c),
                        values[ParamIndex(sets[CHOOSE i \in 1..Len(sets) : sets[i][2] = c][5])])
            ELSE row[c]
        hit(row) == Matches(row, keyCol, values[ParamIndex(key)])
        new(row) == IF hit(row) THEN [c \in cols |-> newVal(row, c)] ELSE row
    IN  IF ok
        THEN [error |-> "none",
              table |-> {new(row) : row \in rows},
              rows |-> {new(row) : row \in {r \in rows : hit(r)}}]
        ELSE [error |-> "DbError"]

\* the words that cannot be a bare column alias
Keywords == {"SELECT", "FROM", "WHERE", "AS", "ORDER", "BY", "AND", "RETURNING"}

\* an identifier written without quotes is read in lower case; logo_Url is
\* the one the source writes with a capital (src/Jobly/models/job.js:129)
Fold(word) == IF word = "logo_Url" THEN "logo_url" ELSE word

\* a column reference, <col> or <alias>.<col>, at the head of words: the
\* number of words it takes, 0 when there is none
RefLen(words, alias, cols) ==
    IF Len(words) >= 3 /\ words[2] = "."
    THEN IF words[1] = alias /\ Fold(words[3]) \in cols THEN 3 ELSE 0
    ELSE IF Len(words) >= 1 /\ Fold(words[1]) \in cols THEN 1 ELSE 0

RefCol(words) == IF Len(words) >= 3 /\ words[2] = "." THEN Fold(words[3]) ELSE Fold(words[1])

\* one item of a select or RETURNING list: a column reference, then
\* nothing, AS "name", AS name, or a bare name
ItemOk(item, alias, cols) ==
    LET r == RefLen(item, alias, cols)
        rest == SubSeq(item, r + 1, Len(item))
    IN  /\ r > 0
        /\ \/ Len(rest) = 0
           \/ Len(rest) = 4 /\ rest[1] = "AS" /\ rest[2] = "\"" /\ rest[4] = "\""
           \/ Len(rest) = 2 /\ rest[1] = "AS" /\ rest[2] \notin Keywords \cup Punct
           \/ Len(rest) = 1 /\ rest[1] \notin Keywords \cup Punct

\* the name under which the item appears in a returned row
ItemName(item) ==
    LET r == IF Len(item) >= 3 /\ item[2] = "." THEN 3 ELSE 1
        rest == SubSeq(item, r + 1, Len(item))
    IN  IF Len(rest) = 0 THEN RefCol(item)
        ELSE IF Len(rest) = 4 THEN rest[3]
        ELSE rest[Len(rest)]

\* a row as a list of items shows it
Project(row, items) ==
    [name \in {ItemName(items[i]) : i \in 1..Len(items)} |->
        row[RefCol(items[CHOOSE i \in 1..Len(items) : ItemName(items[i]) = name])]]

ListOk(items, alias, cols) ==
    /\ \A i \in 1..Len(items) : ItemOk(items[i], alias, cols)
    /\ \A i, j \in 1..Len(items) : i # j => ItemName(items[i]) # ItemName(items[j])

\* the first position of word in words, 0 when it does not occur
First(words, word) ==
    IF \E i \in 1..Len(words) : words[i] = word
    THEN CHOOSE i \in 1..Len(words) :
            words[i] = word /\ \A j \in 1..(i - 1) : words[j] # word
    ELSE 0

\* the orders in which rows can be returned: any order, or under
\* ORDER BY col the orders that do not decrease on col
SortedBy(rows, col) ==
    LET n == Cardinality(rows)
        less(a, b) == IF ColType(col) = "text" THEN CharsLess(a[col].val, b[col].val)
                      ELSE Tenths(a[col]) < Tenths(b[col])
    IN  {s \in [1..n -> rows] :
            /\ \A i, j \in 1..n : i # j => s[i] # s[j]
            /\ col # "" => \A i \in 1..(n - 1) : ~ less(s[i + 1], s[i])}

\* SELECT <items> FROM <table> [AS <alias>] WHERE <col> = $1 [ORDER BY <col>]
\* on the rows of the table.  The result is the set of possible answers.
DbSelectWhere(text, values, table, rows, cols) ==
    LET words == Lex(text)
        n == Len(words)
        f == First(words, "FROM")
        w == First(words, "WHERE")
        items == SplitBy(SubSeq(words, 2, f - 1), <<",">>)
        from == SubSeq(words, f + 1, w - 1)
        alias == IF Len(from) = 3 THEN from[3] ELSE ""
        cond == SubSeq(words, w + 1, n)
        r == RefLen(cond, alias, cols)
        order == SubSeq(cond, r + 3, Len(cond))
        o == RefLen(SubSeq(order, 3, Len(order)), alias, cols)
        shape == /\ n >= 1 /\ words[1] = "SELECT"
                 /\ f > 2 /\ w > f
                 /\ from = <<table>> \/ (Len(from) = 3 /\ from[1] = table /\ from[2] = "AS")
        ok == /\ shape
              /\ ListOk(items, alias, cols)
              /\ r > 0
              /\ Len(cond) >= r + 2
              /\ cond[r + 1] = "="
              /\ cond[r + 2] = "$1"
              /\ Len(values) = 1
              /\ Coercible(ColType(RefCol(cond)), values[1])
              /\ \/ Len(order) = 0
                 \/ /\ Len(order) >= 3
                    /\ order[1] = "ORDER" /\ order[2] = "BY"
                    /\ o > 0 /\ Len(order) = 2 + o
        hit == {row \in rows :
                   row[RefCol(cond)] = Coerce(ColType(RefCol(cond)), values[1])}
        by == IF Len(order) = 0 THEN "" ELSE RefCol(SubSeq(order, 3, Len(order)))
    IN  IF ok
        THEN {[error |-> "none",
               rows |-> [i \in 1..Len(sq) |-> Project(sq[i], items)]] :
                 sq \in SortedBy(hit, by)}
        ELSE {[error |-> "DbError"]}

\* DELETE FROM <table> WHERE <keyCol> = $1 RETURNING <keyCol>
DbDelete(text, values, table, rows, keyCol) ==
    LET words == Lex(text)
        ok == /\ words = <<"DELETE", "FROM", table, "WHERE", keyCol, "=", "$1",
                           "RETURNING", keyCol>>
              /\ Len(values) = 1
              /\ Coercible(ColType(keyCol), values[1])
        hit == {row \in rows : row[keyCol] = Coerce(ColType(keyCol), values[1])}
    IN  IF ok
        THEN [error |-> "none",
              table |-> rows \ hit,
              rows |-> {Project(row, <<<<keyCol>>>>) : row \in hit}]
        ELSE [error |-> "DbError"]

\* INSERT INTO <table> (<col>, ...) VALUES ($1, ...) RETURNING <items>.
\* A column that is not named gets its default, NULL when it has none.
DbInsert(text, values, table, rows, cols, defaults) ==
    LET words == Lex(text)
        n == Len(words)
        c == First(words, ")")
        v == First(words, "VALUES")
        returning == First(words, "RETURNING") > 0
        rt == IF returning THEN First(words, "RETURNING") ELSE n + 1
        names == SplitBy(SubSeq(words, 5, c - 1), <<",">>)
        exprs == SplitBy(SubSeq(words, v + 2, rt - 2), <<",">>)
        items == IF returning THEN SplitBy(SubSeq(words, rt + 1, n), <<",">>) ELSE <<>>
        shape == /\ n >= 4
                 /\ SubSeq(words, 1, 4) = <<"INSERT", "INTO", table, "(">>
                 /\ c > 5 /\ v = c + 1 /\ rt > v + 3
                 /\ words[v + 1] = "(" /\ words[rt - 1] = ")"
        ok == /\ shape
              /\ \A i \in 1..Len(names) : Len(names[i]) = 1 /\ names[i][1] \in cols
              /\ \A i, j \in 1..Len(names) : i # j => names[i] # names[j]
              /\ \A i \in 1..Len(exprs) : Len(exprs[i]) = 1 /\ IsParam(exprs[i][1])
              /\ Len(exprs) = Len(names)
              /\ {ParamIndex(exprs[i][1]) : i \in 1..Len(exprs)} = 1..Len(values)
              /\ \A i \in 1..Len(names) :
                    Coercible(ColType(names[i][1]), values[ParamIndex(exprs[i][1])])
              /\ ListOk(items, "", cols)
        at(col) == CHOOSE i \in 1..Len(names) : names[i][1] = col
        row == [col \in cols |->
                   IF \E i \in 1..Len(names) : names[i][1] = col
                   THEN Coerce(ColType(col), values[ParamIndex(exprs[at(col)][1])])
                   ELSE IF col \in DOMAIN defaults THEN defaults[col]
                   ELSE Null]
    IN  IF ok
        THEN [error |-> "none",
              table |-> rows \cup {row},
              rows |-> IF returning THEN {Project(row, items)} ELSE {}]
        ELSE [error |-> "DbError"]

CompanyCols == {"handle", "name", "description", "num_employees", "logo_url"}

JobCols == {"id", "title", "salary", "equity", "company_handle"}

UserCols == {"username", "password", "first_name", "last_name", "email", "is_admin"}

\* A fixed fragment of a statement that begins and ends with a non-blank
\* character is kept as one atom.
CompanyProjection ==
    "handle, name, description, num_employees AS \"numEmployees\", logo_url AS \"logoUrl\""

CompanyRow(row) ==
    [handle |-> row.handle, name |-> row.name, description |-> row.description,
     numEmployees |-> row.num_employees, logoUrl |-> row.logo_url]

JobProjection ==
    "j.id, j.title, j.salary, j.equity, j.company_handle AS \"companyHandle\", c.name AS \"companyName\""

JobSelectFrom ==
    <<"SELECT", WS, JobProjection, WS, "FROM", WS,
      "jobs j LEFT JOIN companies AS c ON c.handle = j.company_handle">>

\* the row of the join for one job: the job's columns and the name of its
\* company, NULL when there is none
JobJoinRow(row, companyRows) ==
    LET cs == {c \in companyRows : c.handle = row.company_handle}
    IN  [id |-> row.id, title |-> row.title, salary |-> row.salary,
         equity |-> row.equity, company_handle |-> row.company_handle,
         name |-> IF cs = {} THEN Null ELSE (CHOOSE c \in cs : TRUE).name]

JobListRow(row) ==
    [id |-> row.id, title |-> row.title, salary |-> row.salary,
     equity |-> row.equity, companyHandle |-> row.company_handle,
     companyName |-> row.name]

JobRow(row) ==
    [id |-> row.id, title |-> row.title, salary |-> row.salary,
     equity |-> row.equity, companyHandle |-> row.company_handle]

UserRow(row) ==
    [username |-> row.username, firstName |-> row.first_name,
     lastName |-> row.last_name, email |-> row.email, isAdmin |-> row.is_admin]

(***************************************************************************)
(* findAll: assembly of the statement                                      *)
(***************************************************************************)
Present(v) == v.type # "undefined"

NumberingOffByOne(whereValues) == Placeholder(Len(whereValues) + 1)

\* $${whereValues.length}, read right after the value was pushed
Numbering(whereValues) == Placeholder(Len(whereValues))

NoRangeCheck(minEmployees, maxEmployees) == FALSE

\* if (minEmployees > maxEmployees) throw new BadRequestError(...)
RangeError(minEmployees, maxEmployees) == JsGreater(minEmployees, maxEmployees)

EquityWheneverSupplied(hasEquity) == Present(hasEquity)

\* hasEquity === true
EquityPredicate(hasEquity) == hasEquity.type = "boolean" /\ hasEquity.val = TRUE

\* `%${v}%`
Wrap(v) == Str(<<"%">> \o v.val \o <<"%">>)

\* `%${title}$` (src/Jobly/models/job.js:79)
WrapJobly(v) == Str(<<"%">> \o v.val \o <<"$">>)

\* a value written as a literal of the statement text
RECURSIVE Concat(_)
Concat(chars) == IF Len(chars) = 0 THEN "" ELSE Head(chars) \o Concat(Tail(chars))

Literal(v) ==
    IF v.type = "number" THEN ToString(v.val) ELSE "'" \o Concat(v.val) \o "'"

PushValueInline(acc, v, col, op, trail) ==
    [values |-> acc.values,
     clauses |-> Append(acc.clauses, <<col, WS, op, WS, Literal(v)>> \o trail)]

\* whereValues.push(v); whereClauses.push(`<col> <op> $${whereValues.length}`)
PushValue(acc, v, col, op, trail) ==
    LET whereValues == Append(acc.values, v)
    IN  [values |-> whereValues,
         clauses |-> Append(acc.clauses,
                            <<col, WS, op, WS, Numbering(whereValues)>> \o trail)]

PushEquityBound(acc) == PushValue(acc, Num(0), "equity", ">", <<>>)

\* whereClauses.push(`equity > 0`)
PushEquity(acc) ==
    [values |-> acc.values,
     clauses |-> Append(acc.clauses, <<"equity", WS, ">", WS, "0">>)]

Empty == [values |-> <<>>, clauses |-> <<>>]

\* src/models/company.js, Company.findAll
Company_findAll_models(searchCriteria) ==
    LET baseQuery == <<"SELECT", WS, CompanyProjection, WS, "FROM", WS, "companies",
                       WS, "WHERE", WS>>
        name == Get(searchCriteria, "name")
        minEmployees == Get(searchCriteria, "minEmployees")
        maxEmployees == Get(searchCriteria, "maxEmployees")
        a1 == IF Present(minEmployees)
              THEN PushValue(Empty, minEmployees, "num_employees", ">=", <<>>)
              ELSE Empty
        a2 == IF Present(maxEmployees)
              THEN PushValue(a1, maxEmployees, "num_employees", "<=", <<>>)
              ELSE a1
        a3 == IF Present(name)
              THEN PushValue(a2, Wrap(name), "name", "ILIKE", <<>>)
              ELSE a2
        filtered == IF Len(a3.clauses) > 0
                    THEN baseQuery \o <<"WHERE">>
                         \o Join(a3.clauses, <<WS, "AND", WS>>)
                    ELSE baseQuery
    IN  IF RangeError(minEmployees, maxEmployees)
        THEN [error |-> "BadRequestError"]
        ELSE [error |-> "none",
              text |-> filtered \o <<"ORDER", WS, "BY", WS, "name">>,
              values |-> a3.values]

\* Company.findAll with the predicates pushed in the iteration order of the
\* supplied mapping
RECURSIVE PushSupplied(_, _)
PushSupplied(acc, entries) ==
    IF Len(entries) = 0 THEN acc
    ELSE LET e == Head(entries)
             next == CASE e.key = "minEmployees" ->
                              PushValue(acc, e.val, "num_employees", ">=", <<>>)
                       [] e.key = "maxEmployees" ->
                              PushValue(acc, e.val, "num_employees", "<=", <<>>)
                       [] e.key = "name" /\ Truthy(e.val) ->
                              PushValue(acc, Wrap(e.val), "name", "ILIKE", <<>>)
                       [] OTHER -> acc
         IN  PushSupplied(next, Tail(entries))

Company_findAll_suppliedOrder(searchCriteria) ==
    LET query == <<"SELECT", WS, CompanyProjection, WS, "FROM", WS, "companies">>
        a3 == PushSupplied(Empty, searchCriteria)
        filtered == IF Len(a3.clauses) > 0
                    THEN query \o <<WS, "WHERE", WS>>
                         \o Join(a3.clauses, <<WS, "AND", WS>>)
                    ELSE query
    IN  IF RangeError(Get(searchCriteria, "minEmployees"),
                      Get(searchCriteria, "maxEmployees"))
        THEN [error |-> "BadRequestError"]
        ELSE [error |-> "none",
              text |-> filtered \o <<WS, "ORDER", WS, "BY", WS, "name">>,
              values |-> a3.values]

\* src/unnamed/part_001, Company.findAll
Company_findAll_part_001(searchCriteria) ==
    LET query == <<"SELECT", WS, CompanyProjection, WS, "FROM", WS, "companies">>
        minEmployees == Get(searchCriteria, "minEmployees")
        maxEmployees == Get(searchCriteria, "maxEmployees")
        name == Get(searchCriteria, "name")
        a1 == IF Present(minEmployees)
              THEN PushValue(Empty, minEmployees, "num_employees", ">=", <<>>)
              ELSE Empty
        a2 == IF Present(maxEmployees)
              THEN PushValue(a1, maxEmployees, "num_employees", "<=", <<>>)
              ELSE a1
        a3 == IF Truthy(name)
              THEN PushValue(a2, Wrap(name), "name", "ILIKE", <<>>)
              ELSE a2
        filtered == IF Len(a3.clauses) > 0
                    THEN query \o <<WS, "WHERE", WS>>
                         \o Join(a3.clauses, <<WS, "AND", WS>>)
                    ELSE query
    IN  IF RangeError(minEmployees, maxEmployees)
        THEN [error |-> "BadRequestError"]
        ELSE [error |-> "none",
              text |-> filtered \o <<WS, "ORDER", WS, "BY", WS, "name">>,
              values |-> a3.values]

\* src/models/job.js, Job.findAll
Job_findAll_models(searchCriteria) ==
    LET baseQuery == JobSelectFrom
        title == Get(searchCriteria, "title")
        minSalary == Get(searchCriteria, "minSalary")
        hasEquity == Get(searchCriteria, "hasEquity")
        a1 == IF Present(title)
              THEN PushValue(Empty, Wrap(title), "title", "ILIKE", <<>>)
              ELSE Empty
        a2 == IF Present(minSalary)
              THEN PushValue(a1, minSalary, "salary", ">=", <<>>)
              ELSE a1
        a3 == IF Present(hasEquity) /\ EquityPredicate(hasEquity)
              THEN PushEquity(a2)
              ELSE a2
        filtered == IF Len(a3.clauses) > 0
                    THEN baseQuery \o <<"WHERE">>
                         \o Join(a3.clauses, <<WS, "AND", WS>>)
                    ELSE baseQuery
    IN  [error |-> "none",
         text |-> filtered \o <<"ORDER", WS, "BY", WS, "title">>,
         values |-> a3.values]

\* src/Jobly/models/job.js, Job.findAll
Job_findAll_Jobly(searchCriteria) ==
    LET query == JobSelectFrom
        minSalary == Get(searchCriteria, "minSalary")
        title == Get(searchCriteria, "title")
        hasEquity == Get(searchCriteria, "hasEquity")
        a1 == IF Present(title)
              THEN PushValue(Empty, WrapJobly(title), "title", "ILIKE", <<>>)
              ELSE Empty
        a2 == IF Present(minSalary)
              THEN PushValue(a1, minSalary, "salary", ">=", <<WS>>)
              ELSE a1
        a3 == IF EquityPredicate(hasEquity)
              THEN PushEquity(a2)
              ELSE a2
        filtered == IF Len(a3.clauses) > 0
                    THEN query \o <<WS, "WHERE", WS>>
                         \o Join(a3.clauses, <<WS, "AND", WS>>)
                    ELSE query
    IN  [error |-> "none",
         text |-> filtered \o <<WS, "ORDER", WS, "BY", WS, "title">>,
         values |-> a3.values]

Company_findAll(rev, searchCriteria) ==
    IF rev = "models" THEN Company_findAll_models(searchCriteria)
    ELSE Company_findAll_part_001(searchCriteria)

Job_findAll(rev, searchCriteria) ==
    IF rev = "models" THEN Job_findAll_models(searchCriteria)
    ELSE Job_findAll_Jobly(searchCriteria)

(***************************************************************************)
(* update: assembly of the statement                                       *)
(***************************************************************************)
\* bcrypt.hash(password, BCRYPT_WORK_FACTOR); the salt is left out
Hash(password) == Str(<<"#">> \o password.val)

VarIdxOfFirst(values) == Placeholder(1)

\* "$" + (values.length + 1)
VarIdx(values) == Placeholder(Len(values) + 1)

\* src/models/company.js, Company.update, up to the call of db.query
Company_update(handle, data) ==
    LET r == sqlForPartialUpdate(data, [numEmployees |-> "num_employees",
                                        logoUrl |-> "logo_url"])
        handleVarIdx == VarIdx(r.values)
    IN  IF r.error # "none" THEN r
        ELSE [error |-> "none",
              text |-> <<"UPDATE", WS, "companies", WS, "SET", WS>> \o r.setCols
                       \o <<WS, "WHERE", WS, "handle", WS, "=", WS, handleVarIdx,
                            WS, "RETURNING", WS, CompanyProjection>>,
              values |-> r.values \o <<handle>>]

JobReturning ==
    "id, title, salary, equity, company_handle AS \"companyHandle\""

\* src/models/job.js and src/Jobly/models/job.js, Job.update, up to the
\* call of db.query
Job_update(id, data) ==
    LET r == sqlForPartialUpdate(data, <<>>)
        idVarIdx == VarIdx(r.values)
    IN  IF r.error # "none" THEN r
        ELSE [error |-> "none",
              text |-> <<"Update", WS, "jobs", WS, "SET", WS>> \o r.setCols
                       \o <<WS, "WHERE", WS, "id", WS, "=", WS, idVarIdx,
                            WS, "RETURNING", WS, JobReturning>>,
              values |-> r.values \o <<id>>]

UserReturning ==
    "username, first_name AS \"firstName\", last_name AS \"lastName\", email, is_admin AS \"isAdmin\""

\* if (data.password) data.password = await bcrypt.hash(...)
HashPassword(data) ==
    [i \in 1..Len(data) |->
        IF data[i].key = "password" /\ Truthy(data[i].val)
        THEN [key |-> "password", val |-> Hash(data[i].val)]
        ELSE data[i]]

\* src/unnamed/part_002, User.update, up to the call of db.query
User_update(username, data) ==
    LET r == sqlForPartialUpdate(HashPassword(data),
                                 [firstName |-> "first_name",
                                  lastName |-> "last_name",
                                  isAdmin |-> "is_admin"])
        usernameVarIdx == VarIdx(r.values)
    IN  IF r.error # "none" THEN r
        ELSE [error |-> "none",
              text |-> <<"UPDATE", WS, "users", WS, "SET", WS>> \o r.setCols
                       \o <<WS, "WHERE", WS, "username", WS, "=", WS,
                            usernameVarIdx, WS, "RETURNING", WS, UserReturning>>,
              values |-> r.values \o <<username>>]

(***************************************************************************)
(* get, create and remove: the statements                                  *)
(***************************************************************************)
\* src/models/company.js:21-23 (the same in src/unnamed/part_001)
Company_duplicateCheck ==
    <<"SELECT", WS, "handle", WS, "FROM", WS, "companies", WS,
      "WHERE", WS, "handle", WS, "=", WS, "$1">>

\* src/models/company.js:30-33
Company_insert ==
    <<"INSERT", WS, "INTO", WS, "companies", WS,
      "(", "handle", ",", WS, "name", ",", WS, "description", ",", WS,
      "num_employees", ",", WS, "logo_url", ")", WS,
      "VALUES", WS, "(", "$1", ",", WS, "$2", ",", WS, "$3", ",", WS, "$4",
      ",", WS, "$5", ")", WS,
      "RETURNING", WS, "handle", ",", WS, "name", ",", WS, "description", ",", WS,
      "num_employees", WS, "AS", WS, "\"", "numEmployees", "\"", ",", WS,
      "logo_url", WS, "AS", WS, "\"", "logoUrl", "\"">>

\* src/models/company.js:128-134
Company_select ==
    <<"SELECT", WS, "handle", ",", WS, "name", ",", WS, "description", ",", WS,
      "num_employees", WS, "AS", WS, "\"", "numEmployees", "\"", ",", WS,
      "logo_url", WS, "AS", WS, "\"", "logoUrl", "\"", WS,
      "FROM", WS, "companies", WS, "WHERE", WS, "handle", WS, "=", WS, "$1">>

\* src/models/company.js:142-145
Company_selectJobs ==
    <<"SELECT", WS, "id", ",", WS, "title", ",", WS, "salary", ",", WS, "equity", WS,
      "FROM", WS, "jobs", WS, "WHERE", WS, "company_handle", WS, "=", WS, "$1", WS,
      "ORDER", WS, "BY", WS, "id">>

\* src/models/company.js:197-200
Company_delete ==
    <<"DELETE", WS, "FROM", WS, "companies", WS, "WHERE", WS, "handle", WS, "=",
      WS, "$1", WS, "RETURNING", WS, "handle">>

\* src/Jobly/models/job.js:20-25; src/models/job.js:21-24 writes one
\* placeholder more, $5
Job_insert(rev) ==
    <<"INSERT", WS, "INTO", WS, "jobs", WS,
      "(", "title", ",", WS, "salary", ",", WS, "equity", ",", WS,
      "company_handle", ")", WS,
      "VALUES", WS, "(", "$1", ",", WS, "$2", ",", WS, "$3", ",", WS, "$4">>
    \o (IF rev = "models" THEN <<",", WS, "$5">> ELSE <<>>)
    \o <<")", WS, "RETURNING", WS, "id", ",", WS, "title", ",", WS, "salary", ",", WS,
         "equity", ",", WS, "company_handle", WS, "AS", WS, "\"", "companyHandle", "\"">>

\* src/Jobly/models/job.js:110-116; src/models/job.js:112-118 has no comma
\* after equity
Job_select(rev) ==
    <<"SELECT", WS, "id", ",", WS, "title", ",", WS, "salary", ",", WS, "equity">>
    \o (IF rev = "models" THEN <<>> ELSE <<",">>)
    \o <<WS, "company_handle", WS, "AS", WS, "\"", "companyHandle", "\"", WS,
         "FROM", WS, "jobs", WS, "WHERE", WS, "id", WS, "=", WS, "$1">>

\* src/Jobly/models/job.js:125-131
Job_selectCompany ==
    <<"SELECT", WS, "handle", ",", WS, "name", ",", WS, "description", ",", WS,
      "num_employees", WS, "AS", WS, "\"", "numEmployees", "\"", ",", WS,
      "logo_Url", WS, "AS", WS, "\"", "logoUrl", "\"", WS,
      "FROM", WS, "companies", WS, "WHERE", WS, "handle", WS, "=", WS, "$1">>

\* src/models/job.js:169-172 (the same in src/Jobly/models/job.js)
Job_delete ==
    <<"DELETE", WS, "FROM", WS, "jobs", WS, "WHERE", WS, "id", WS, "=",
      WS, "$1", WS, "RETURNING", WS, "id">>

\* src/unnamed/part_002:136-142
User_select ==
    <<"SELECT", WS, "username", ",", WS,
      "first_name", WS, "AS", WS, "\"", "firstName", "\"", ",", WS,
      "last_name", WS, "AS", WS, "\"", "lastName", "\"", ",", WS,
      "email", ",", WS,
      "is_admin", WS, "AS", WS, "\"", "isAdmin", "\"", WS,
      "FROM", WS, "users", WS, "WHERE", WS, "username", WS, "=", WS, "$1">>

\* src/unnamed/part_002:151-153
User_selectApplications ==
    <<"SELECT", WS, "a", ".", "job_id", WS,
      "FROM", WS, "applications", WS, "AS", WS, "a", WS,
      "WHERE", WS, "a", ".", "username", WS, "=", WS, "$1">>

\* src/unnamed/part_002:212-215
User_delete ==
    <<"DELETE", WS, "FROM", WS, "users", WS, "WHERE", WS, "username", WS, "=",
      WS, "$1", WS, "RETURNING", WS, "username">>

\* src/unnamed/part_002:61-64
User_duplicateCheck ==
    <<"SELECT", WS, "username", WS, "FROM", WS, "users", WS,
      "WHERE", WS, "username", WS, "=", WS, "$1">>

\* src/unnamed/part_002:75-84
User_insert ==
    <<"INSERT", WS, "INTO", WS, "users", WS,
      "(", "username", ",", WS, "password", ",", WS, "first_name", ",", WS,
      "last_name", ",", WS, "email", ",", WS, "is_admin", ")", WS,
      "VALUES", WS, "(", "$1", ",", WS, "$2", ",", WS, "$3", ",", WS, "$4",
      ",", WS, "$5", ",", WS, "$6", ")", WS,
      "RETURNING", WS, "username", ",", WS,
      "first_name", WS, "AS", WS, "\"", "firstName", "\"", ",", WS,
      "last_name", WS, "AS", WS, "\"", "lastName", "\"", ",", WS,
      "email", ",", WS,
      "is_admin", WS, "AS", WS, "\"", "isAdmin", "\"">>

\* src/unnamed/part_002:243-246
User_getJob ==
    <<"SELECT", WS, "id", WS, "FROM", WS, "jobs", WS, "WHERE", WS, "id", WS, "=", WS, "$1">>

\* src/unnamed/part_002:254-257
User_getApplicant ==
    <<"SELECT", WS, "username", WS, "FROM", WS, "users", WS,
      "WHERE", WS, "username", "=", WS, "$1">>

\* src/unnamed/part_002:265-267
User_insertApplication ==
    <<"INSERT", WS, "INTO", WS, "applications", "(", "job_id", ",", WS, "username", ")",
      WS, "VALUES", "(", "$1", ",", WS, "$2", ")">>

ApplicationCols == {"username", "job_id"}

(***************************************************************************)
(* Inputs                                                                  *)
(***************************************************************************)
c1 == Str(<<"c", "1">>)
c2 == Str(<<"c", "2">>)
c3 == Str(<<"c", "3">>)
u1 == Str(<<"u", "1">>)
missing == Str(<<"n", "o">>)

\* the mappings of at most n entries drawn from entries, keys distinct
Mappings(entries, n) ==
    UNION {{m \in [1..k -> entries] :
               \A i, j \in 1..k : i # j => m[i].key # m[j].key} : k \in 0..n}

\* the mapping with key k for each value of vals, and the one without it
Optional(k, vals) == {<<>>} \cup {<<[key |-> k, val |-> v]>> : v \in vals}

SqlEntries ==
    {[key |-> k, val |-> v] :
        k \in {"firstName", "age", "x"},
        v \in {Str(<<"A">>), Num(20), Null}}

SqlAliases ==
    UNION {[ks -> {"first_name", "col_x", ""}] :
              ks \in SUBSET {"firstName", "age", "x"}}

CompanyCriteria ==
    {n \o lo \o hi :
        n \in Optional("name", {Str(<<"c">>), Str(<<"1">>), Str(<<>>)}),
        lo \in Optional("minEmployees", {Num(1), Num(2)}),
        hi \in Optional("maxEmployees", {Num(1), Num(2)})}

JobCriteria ==
    {t \o lo \o e :
        t \in Optional("title", {Str(<<"o", "b", "1">>), Str(<<"J", "O">>), Str(<<"2">>)}),
        lo \in Optional("minSalary", {Num(2), Num(3)}),
        e \in Optional("hasEquity", {Bool(TRUE), Bool(FALSE)})}

CompanyData ==
    Mappings({[key |-> "name", val |-> Str(<<"N">>)],
              [key |-> "numEmployees", val |-> Num(3)],
              [key |-> "logoUrl", val |-> Str(<<"l">>)]}, MaxFields)

\* equity is given as null, as a number, or as a decimal string, as in
\* src/models/job.test.js:25 and 194
JobData ==
    Mappings({[key |-> "title", val |-> Str(<<"N">>)],
              [key |-> "salary", val |-> Num(1)],
              [key |-> "equity", val |-> Null],
              [key |-> "equity", val |-> Num(0)],
              [key |-> "equity", val |-> Str(<<"0", ".", "3">>)]}, MaxFields)

\* the data of Company.create, for a handle that exists and for a new one
CompanyNew ==
    {<<[key |-> "handle", val |-> h], [key |-> "name", val |-> Str(<<"N">>)],
       [key |-> "description", val |-> Str(<<"x">>)],
       [key |-> "numEmployees", val |-> n],
       [key |-> "logoUrl", val |-> Null]>> : h \in {c1, c3}, n \in {Num(3), Null}}

\* the data of Job.create, equity as in src/models/job.test.js:25 and as in
\* src/unnamed/part_000:28
JobNew ==
    {<<[key |-> "title", val |-> Str(<<"N">>)], [key |-> "salary", val |-> Num(1)],
       [key |-> "equity", val |-> e], [key |-> "companyHandle", val |-> c1]>> :
          e \in {Num(0), Str(<<"0">>), Str(<<"0", ".", "3">>)}}

u2 == Str(<<"u", "2">>)

\* the data of User.register, for a username that exists and for a new one
UserNew ==
    {<<[key |-> "username", val |-> u], [key |-> "password", val |-> Str(<<"p">>)],
       [key |-> "firstName", val |-> Str(<<"F">>)],
       [key |-> "lastName", val |-> Str(<<"L">>)],
       [key |-> "email", val |-> Str(<<"m">>)],
       [key |-> "isAdmin", val |-> a]>> : u \in {u1, u2}, a \in {Bool(FALSE), Bool(TRUE)}}

UserData ==
    Mappings({[key |-> "firstName", val |-> Str(<<"F">>)],
              [key |-> "password", val |-> Str(<<"q">>)],
              [key |-> "isAdmin", val |-> Bool(TRUE)]}, MaxFields)

(***************************************************************************)
(* The state machine                                                       *)
(***************************************************************************)
NoCall == [op |-> "none"]

\* the rows stored before the first call
Stored ==
    /\ companies =
        {[handle |-> c1, name |-> Str(<<"C", "1">>), description |-> Str(<<"d">>),
          num_employees |-> Num(1), logo_url |-> Null],
         [handle |-> c2, name |-> Str(<<"c", "2">>), description |-> Str(<<"d">>),
          num_employees |-> Num(2), logo_url |-> Null]}
    /\ jobs =
        {[id |-> Num(1), title |-> Str(<<"J", "o", "b", "2">>), salary |-> Null,
          equity |-> Str(<<"0">>), company_handle |-> c1],
         [id |-> Num(2), title |-> Str(<<"J", "o", "b", "1">>), salary |-> Num(2),
          equity |-> Str(<<"0", ".", "1">>), company_handle |-> c1]}
    /\ users =
        {[username |-> u1, password |-> Hash(Str(<<"p">>)),
          first_name |-> Str(<<"f">>), last_name |-> Str(<<"l">>),
          email |-> Str(<<"m">>), is_admin |-> Bool(FALSE)]}
    /\ applications = {}
    /\ jobSeq = 3
    /\ writes = 0

Init ==
    /\ Stored
    /\ call = NoCall
    /\ outcome = [error |-> "none"]
    /\ dispatched = <<>>

\* a call of sqlForPartialUpdate on its own, as the tests make it
SqlCall(dataToUpdate, jsToSql) ==
    /\ call = NoCall
    /\ call' = [op |-> "sqlForPartialUpdate", dataToUpdate |-> dataToUpdate,
                jsToSql |-> jsToSql]
    /\ outcome' = sqlForPartialUpdate(dataToUpdate, jsToSql)
    /\ dispatched' = <<>>
    /\ UNCHANGED <<store, jobSeq, writes>>

\* Company.findAll(searchCriteria), of either revision
CompanyFindAll(rev, searchCriteria) ==
    LET q == Company_findAll(rev, searchCriteria)
    IN  /\ call = NoCall
        /\ call' = [op |-> "Company.findAll", rev |-> rev,
                    searchCriteria |-> searchCriteria]
        /\ IF q.error # "none"
           THEN /\ outcome' = [error |-> q.error]
                /\ dispatched' = <<>>
           ELSE /\ dispatched' = <<[text |-> q.text, values |-> q.values]>>
                /\ \E res \in DbSelect(q.text, q.values,
                                       Lex(<<"SELECT", WS, CompanyProjection, WS,
                                             "FROM", WS, "companies">>),
                                       companies, CompanyCols, "name") :
                      outcome' = IF res.error # "none" THEN res
                                 ELSE [error |-> "none",
                                       rows |-> [i \in 1..Len(res.rows) |->
                                                    CompanyRow(res.rows[i])]]
        /\ UNCHANGED <<store, jobSeq, writes>>

\* Job.findAll(searchCriteria), of either revision
JobFindAll(rev, searchCriteria) ==
    LET q == Job_findAll(rev, searchCriteria)
    IN  /\ call = NoCall
        /\ call' = [op |-> "Job.findAll", rev |-> rev,
                    searchCriteria |-> searchCriteria]
        /\ dispatched' = <<[text |-> q.text, values |-> q.values]>>
        /\ \E res \in DbSelect(q.text, q.values, Lex(JobSelectFrom),
                               {JobJoinRow(j, companies) : j \in jobs},
                               JobCols \cup {"name"}, "title") :
              outcome' = IF res.error # "none" THEN res
                         ELSE [error |-> "none",
                               rows |-> [i \in 1..Len(res.rows) |->
                                            JobListRow(res.rows[i])]]
        /\ UNCHANGED <<store, jobSeq, writes>>

\* the row of a table as its RETURNING list names the columns
Returned(table, row) ==
    IF table = "companies" THEN CompanyRow(row)
    ELSE IF table = "jobs" THEN JobRow(row)
    ELSE UserRow(row)

\* the part of update after the statement is assembled: dispatch it, and
\* throw NotFoundError when it returns no row
Update(op, key, data, q, table, rows, cols, keyCol, returning) ==
    /\ call = NoCall
    /\ call' = [op |-> op, key |-> key, data |-> data]
    /\ IF q.error # "none"
       THEN /\ outcome' = q
            /\ dispatched' = <<>>
            /\ UNCHANGED <<store, jobSeq, writes>>
       ELSE LET res == DbUpdate(q.text, q.values, table, rows, cols, keyCol,
                                <<"RETURNING", returning>>)
            IN  /\ dispatched' = <<[text |-> q.text, values |-> q.values]>>
                /\ IF res.error # "none"
                   THEN /\ outcome' = res
                        /\ UNCHANGED <<store, jobSeq, writes>>
                   ELSE /\ outcome' =
                            IF res.rows = {} THEN [error |-> "NotFoundError"]
                            ELSE [error |-> "none",
                                  row |-> Returned(table, CHOOSE r \in res.rows : TRUE)]
                        /\ IF res.table = rows
                           THEN UNCHANGED writes
                           ELSE writes < MaxWrites /\ writes' = writes + 1
                        /\ companies' = IF table = "companies" THEN res.table ELSE companies
                        /\ jobs' = IF table = "jobs" THEN res.table ELSE jobs
                        /\ users' = IF table = "users" THEN res.table ELSE users
                        /\ UNCHANGED <<applications, jobSeq>>

\* Company.update(handle, data)
CompanyUpdate(handle, data) ==
    Update("Company.update", handle, data, Company_update(handle, data),
           "companies", companies, CompanyCols, "handle", CompanyProjection)

\* Job.update(id, data)
JobUpdate(id, data) ==
    Update("Job.update", id, data, Job_update(id, data),
           "jobs", jobs, JobCols, "id", JobReturning)

\* User.update(username, data)
UserUpdate(username, data) ==
    Update("User.update", username, data, User_update(username, data),
           "users", users, UserCols, "username", UserReturning)

\* a record with one more field, and with one field less
WithField(rec, name, val) ==
    [k \in DOMAIN rec \cup {name} |-> IF k = name THEN val ELSE rec[k]]

DeleteField(rec, name) == [k \in DOMAIN rec \ {name} |-> rec[k]]

Statement(text, values) == [text |-> text, values |-> values]

\* Company.get(handle), src/models/company.js:126-151 (the same in
\* src/unnamed/part_001)
CompanyGet(handle) ==
    /\ call = NoCall
    /\ call' = [op |-> "Company.get", key |-> handle]
    /\ \E companyRes \in DbSelectWhere(Company_select, <<handle>>, "companies",
                                       companies, CompanyCols) :
          IF companyRes.error # "none"
          THEN /\ outcome' = companyRes
               /\ dispatched' = <<Statement(Company_select, <<handle>>)>>
          ELSE IF Len(companyRes.rows) = 0
          THEN /\ outcome' = [error |-> "NotFoundError"]
               /\ dispatched' = <<Statement(Company_select, <<handle>>)>>
          ELSE \E jobsRes \in DbSelectWhere(Company_selectJobs, <<handle>>, "jobs",
                                            jobs, JobCols) :
                  /\ dispatched' = <<Statement(Company_select, <<handle>>),
                                     Statement(Company_selectJobs, <<handle>>)>>
                  /\ outcome' =
                        IF jobsRes.error # "none" THEN jobsRes
                        ELSE [error |-> "none",
                              row |-> WithField(companyRes.rows[1], "jobs", jobsRes.rows)]
    /\ UNCHANGED <<store, jobSeq, writes>>

\* Job.get(id) of src/models/job.js:110-126
JobGet_models(id) ==
    /\ dispatched' = <<Statement(Job_select("models"), <<id>>)>>
    /\ \E jobRes \in DbSelectWhere(Job_select("models"), <<id>>, "jobs", jobs, JobCols) :
          outcome' = IF jobRes.error # "none" THEN jobRes
                     ELSE IF Len(jobRes.rows) = 0 THEN [error |-> "NotFoundError"]
                     ELSE [error |-> "none", row |-> jobRes.rows[1]]

\* Job.get(id) of src/Jobly/models/job.js:108-137
JobGet_Jobly(id) ==
    \E jobRes \in DbSelectWhere(Job_select("Jobly"), <<id>>, "jobs", jobs, JobCols) :
        IF jobRes.error # "none"
        THEN /\ outcome' = jobRes
             /\ dispatched' = <<Statement(Job_select("Jobly"), <<id>>)>>
        ELSE IF Len(jobRes.rows) = 0
        THEN /\ outcome' = [error |-> "NotFoundError"]
             /\ dispatched' = <<Statement(Job_select("Jobly"), <<id>>)>>
        ELSE LET job == jobRes.rows[1]
             IN  \E companiesRes \in DbSelectWhere(Job_selectCompany, <<job.companyHandle>>,
                                                   "companies", companies, CompanyCols) :
                    /\ dispatched' = <<Statement(Job_select("Jobly"), <<id>>),
                                       Statement(Job_selectCompany, <<job.companyHandle>>)>>
                    /\ outcome' =
                          IF companiesRes.error # "none" THEN companiesRes
                          ELSE [error |-> "none",
                                row |-> WithField(DeleteField(job, "companyHandle"),
                                                  "company",
                                                  IF Len(companiesRes.rows) = 0
                                                  THEN Undefined
                                                  ELSE companiesRes.rows[1])]

JobGet(rev, id) ==
    /\ call = NoCall
    /\ call' = [op |-> "Job.get", rev |-> rev, key |-> id]
    /\ IF rev = "models" THEN JobGet_models(id) ELSE JobGet_Jobly(id)
    /\ UNCHANGED <<store, jobSeq, writes>>

\* User.get(username), src/unnamed/part_002:134-158
UserGet(username) ==
    /\ call = NoCall
    /\ call' = [op |-> "User.get", key |-> username]
    /\ \E userRes \in DbSelectWhere(User_select, <<username>>, "users", users, UserCols) :
          IF userRes.error # "none"
          THEN /\ outcome' = userRes
               /\ dispatched' = <<Statement(User_select, <<username>>)>>
          ELSE IF Len(userRes.rows) = 0
          THEN /\ outcome' = [error |-> "NotFoundError"]
               /\ dispatched' = <<Statement(User_select, <<username>>)>>
          ELSE \E res \in DbSelectWhere(User_selectApplications, <<username>>,
                                        "applications", applications, ApplicationCols) :
                  /\ dispatched' = <<Statement(User_select, <<username>>),
                                     Statement(User_selectApplications, <<username>>)>>
                  /\ outcome' =
                        IF res.error # "none" THEN res
                        ELSE [error |-> "none",
                              row |-> WithField(userRes.rows[1], "applications",
                                                [i \in 1..Len(res.rows) |->
                                                    res.rows[i].job_id])]
    /\ UNCHANGED <<store, jobSeq, writes>>

\* remove: dispatch the DELETE, and throw NotFoundError when it returns no
\* row
Remove(op, key, text, table, rows, keyCol) ==
    /\ call = NoCall
    /\ call' = [op |-> op, key |-> key]
    /\ dispatched' = <<Statement(text, <<key>>)>>
    /\ LET res == DbDelete(text, <<key>>, table, rows, keyCol)
       IN  IF res.error # "none"
           THEN /\ outcome' = res
                /\ UNCHANGED <<store, writes>>
           ELSE /\ outcome' = IF res.rows = {} THEN [error |-> "NotFoundError"]
                              ELSE [error |-> "none"]
                /\ IF res.table = rows
                   THEN UNCHANGED writes
                   ELSE writes < MaxWrites /\ writes' = writes + 1
                /\ companies' = IF table = "companies" THEN res.table ELSE companies
                /\ jobs' = IF table = "jobs" THEN res.table ELSE jobs
                /\ users' = IF table = "users" THEN res.table ELSE users
                /\ UNCHANGED applications
    /\ UNCHANGED jobSeq

\* Company.remove(handle), src/models/company.js:195-205
CompanyRemove(handle) ==
    Remove("Company.remove", handle, Company_delete, "companies", companies, "handle")

\* Job.remove(id), src/models/job.js:167-177
JobRemove(id) == Remove("Job.remove", id, Job_delete, "jobs", jobs, "id")

\* User.remove(username), src/unnamed/part_002:210-221
UserRemove(username) ==
    Remove("User.remove", username, User_delete, "users", users, "username")

NeverDuplicate(duplicateCheck) == FALSE

\* if (duplicateCheck.rows[0]), src/models/company.js:26
Duplicate(duplicateCheck) == Len(duplicateCheck.rows) > 0

\* Company.create(data), src/models/company.js:19-45 (the same in
\* src/unnamed/part_001)
CompanyCreate(data) ==
    LET handle == Get(data, "handle")
        values == <<handle, Get(data, "name"), Get(data, "description"),
                    Get(data, "numEmployees"), Get(data, "logoUrl")>>
        check == Statement(Company_duplicateCheck, <<handle>>)
    IN  /\ call = NoCall
        /\ call' = [op |-> "Company.create", data |-> data]
        /\ \E duplicateCheck \in DbSelectWhere(Company_duplicateCheck, <<handle>>,
                                               "companies", companies, CompanyCols) :
              IF duplicateCheck.error # "none"
              THEN /\ outcome' = duplicateCheck
                   /\ dispatched' = <<check>>
                   /\ UNCHANGED <<companies, writes>>
              ELSE IF Duplicate(duplicateCheck)
              THEN /\ outcome' = [error |-> "BadRequestError"]
                   /\ dispatched' = <<check>>
                   /\ UNCHANGED <<companies, writes>>
              ELSE LET result == DbInsert(Company_insert, values, "companies",
                                          companies, CompanyCols, <<>>)
                   IN  /\ dispatched' = <<check, Statement(Company_insert, values)>>
                       /\ IF result.error # "none"
                          THEN /\ outcome' = result
                               /\ UNCHANGED <<companies, writes>>
                          ELSE /\ outcome' = [error |-> "none",
                                              row |-> CHOOSE r \in result.rows : TRUE]
                               /\ writes < MaxCreates
                               /\ writes' = writes + 1
                               /\ companies' = result.table
        /\ UNCHANGED <<jobs, users, applications, jobSeq>>

\* Job.create(data), src/models/job.js:19-34 and
\* src/Jobly/models/job.js:18-35
JobCreate(rev, data) ==
    LET values == <<Get(data, "title"), Get(data, "salary"), Get(data, "equity"),
                    Get(data, "companyHandle")>>
        result == DbInsert(Job_insert(rev), values, "jobs", jobs, JobCols,
                           [id |-> Num(jobSeq)])
    IN  /\ call = NoCall
        /\ call' = [op |-> "Job.create", rev |-> rev, data |-> data]
        /\ dispatched' = <<Statement(Job_insert(rev), values)>>
        /\ IF result.error # "none"
           THEN /\ outcome' = result
                /\ UNCHANGED <<jobs, jobSeq, writes>>
           ELSE /\ outcome' = [error |-> "none", row |-> CHOOSE r \in result.rows : TRUE]
                /\ writes < MaxCreates
                /\ writes' = writes + 1
                /\ jobs' = result.table
                /\ jobSeq' = jobSeq + 1
        /\ UNCHANGED <<companies, users, applications>>

\* User.register(data), src/unnamed/part_002:59-97
UserRegister(data) ==
    LET username == Get(data, "username")
        hashedPassword == Hash(Get(data, "password"))
        values == <<username, hashedPassword, Get(data, "firstName"),
                    Get(data, "lastName"), Get(data, "email"), Get(data, "isAdmin")>>
        check == Statement(User_duplicateCheck, <<username>>)
    IN  /\ call = NoCall
        /\ call' = [op |-> "User.register", data |-> data]
        /\ \E duplicateCheck \in DbSelectWhere(User_duplicateCheck, <<username>>,
                                               "users", users, UserCols) :
              IF duplicateCheck.error # "none"
              THEN /\ outcome' = duplicateCheck
                   /\ dispatched' = <<check>>
                   /\ UNCHANGED <<users, writes>>
              ELSE IF Duplicate(duplicateCheck)
              THEN /\ outcome' = [error |-> "BadRequestError"]
                   /\ dispatched' = <<check>>
                   /\ UNCHANGED <<users, writes>>
              ELSE LET result == DbInsert(User_insert, values, "users",
                                          users, UserCols, <<>>)
                   IN  /\ dispatched' = <<check, Statement(User_insert, values)>>
                       /\ IF result.error # "none"
                          THEN /\ outcome' = result
                               /\ UNCHANGED <<users, writes>>
                          ELSE /\ outcome' = [error |-> "none",
                                              row |-> CHOOSE r \in result.rows : TRUE]
                               /\ writes < MaxCreates
                               /\ writes' = writes + 1
                               /\ users' = result.table
        /\ UNCHANGED <<companies, jobs, applications, jobSeq>>

\* Whether the applications table declares (username, job_id) unique.  The
\* table's definition is not part of the source, so both are possible.
ApplicationsKey == {TRUE, FALSE}

FoundAlways(res) == TRUE

\* const job = getJob.rows[0]; if (!job) ..., and likewise applicant
Found(res) == Len(res.rows) > 0

\* the row identity that tells two equal application rows apart
NextCtid == Cardinality(applications) + 1

\* User.applyForJob(username, jobId), src/unnamed/part_002:242-269
UserApplyForJob(username, jobId) ==
    LET first == Statement(User_getJob, <<jobId>>)
        second == Statement(User_getApplicant, <<username>>)
        values == <<jobId, username>>
    IN  /\ call = NoCall
        /\ call' = [op |-> "User.applyForJob", username |-> username, jobId |-> jobId]
        /\ \E getJob \in DbSelectWhere(User_getJob, <<jobId>>, "jobs", jobs, JobCols) :
              IF getJob.error # "none"
              THEN /\ outcome' = getJob
                   /\ dispatched' = <<first>>
                   /\ UNCHANGED <<applications, writes>>
              ELSE IF ~ Found(getJob)
              THEN /\ outcome' = [error |-> "NotFoundError"]
                   /\ dispatched' = <<first>>
                   /\ UNCHANGED <<applications, writes>>
              ELSE \E getApplicant \in DbSelectWhere(User_getApplicant, <<username>>,
                                                     "users", users, UserCols) :
                      IF getApplicant.error # "none"
                      THEN /\ outcome' = getApplicant
                           /\ dispatched' = <<first, second>>
                           /\ UNCHANGED <<applications, writes>>
                      ELSE IF ~ Found(getApplicant)
                      THEN /\ outcome' = [error |-> "NotFoundError"]
                           /\ dispatched' = <<first, second>>
                           /\ UNCHANGED <<applications, writes>>
                      ELSE LET result == DbInsert(User_insertApplication, values,
                                                  "applications", applications,
                                                  ApplicationCols \cup {"ctid"},
                                                  [ctid |-> Num(NextCtid)])
                           IN  /\ dispatched' =
                                     <<first, second,
                                       Statement(User_insertApplication, values)>>
                               /\ \E unique \in ApplicationsKey :
                                     IF result.error # "none"
                                     THEN /\ outcome' = result
                                          /\ UNCHANGED <<applications, writes>>
                                     ELSE IF /\ unique
                                             /\ \E a \in applications, r \in result.table :
                                                   /\ r \notin applications
                                                   /\ a.username = r.username
                                                   /\ a.job_id = r.job_id
                                     THEN /\ outcome' = [error |-> "DbError"]
                                          /\ UNCHANGED <<applications, writes>>
                                     ELSE /\ outcome' = [error |-> "none"]
                                          /\ writes < MaxCreates
                                          /\ writes' = writes + 1
                                          /\ applications' = result.table
        /\ UNCHANGED <<companies, jobs, users, jobSeq>>

\* POST /users/:username/job/:id, src/routes/jobs.js:201-208; both
\* parameters are the texts of the path
PostApplication(username, id) == UserApplyForJob(username, id)

\* jsonschema.validate(query, jobSearchSchema).valid.  The schema file is
\* not part of the source: a key other than the filters is rejected, and
\* whether the text of a number or of a boolean passes for the number or
\* the boolean is left open.
JobSearchValid(query) ==
    IF \E i \in 1..Len(query) : query[i].key \notin {"title", "minSalary", "hasEquity"}
    THEN {FALSE}
    ELSE IF \E i \in 1..Len(query) : query[i].key # "title" /\ query[i].val.type = "string"
    THEN {TRUE, FALSE}
    ELSE {TRUE}

\* GET /jobs, src/routes/jobs.js:63-82, with Job.findAll of the revision
\* rev; query is req.query, the values as the query string holds them
GetJobs(rev, query) ==
    /\ call = NoCall
    /\ call' = [op |-> "GET /jobs", rev |-> rev, query |-> query]
    /\ \E valid \in JobSearchValid(query) :
          IF ~ valid
          THEN /\ outcome' = [error |-> "BadRequestError"]
               /\ dispatched' = <<>>
          ELSE LET searchCriteriaArr == ObjKeys(query)
                   q == Job_findAll(rev, query)
               IN  /\ dispatched' = <<[text |-> q.text, values |-> q.values]>>
                   /\ \E res \in DbSelect(q.text, q.values, Lex(JobSelectFrom),
                                          {JobJoinRow(j, companies) : j \in jobs},
                                          JobCols \cup {"name"}, "title") :
                         outcome' =
                            IF res.error # "none" THEN res
                            ELSE [error |-> "none",
                                  body |-> IF Len(searchCriteriaArr) = 0
                                           THEN "jobs" ELSE "filteredJobs",
                                  rows |-> [i \in 1..Len(res.rows) |->
                                               JobListRow(res.rows[i])]]
    /\ UNCHANGED <<store, jobSeq, writes>>

HasKey(obj, key) == \E i \in 1..Len(obj) : obj[i].key = key

\* the request of a route with the path parameters params
Request(params) == <<[key |-> "params", val |-> params]>>

\* DELETE /jobs/:id, src/routes/jobs.js:129-136, for an admin.  The
\* handler reads req.parama.id: req has no property parama, the read of
\* .id throws a TypeError, which the catch hands to next.
DeleteJob(id) ==
    LET req == Request(<<[key |-> "id", val |-> id]>>)
    IN  IF ~ HasKey(req, "parama")
        THEN /\ call = NoCall
             /\ call' = [op |-> "DELETE /jobs/:id", key |-> id]
             /\ outcome' = [error |-> "TypeError"]
             /\ dispatched' = <<>>
             /\ UNCHANGED <<store, jobSeq, writes>>
        ELSE Remove("DELETE /jobs/:id", Get(Get(req, "parama"), "id"),
                    Job_delete, "jobs", jobs, "id")

\* the schemas a route module has required, by the names it gives them
Declared(route) ==
    IF route = "Jobly"
    THEN {"companyNewSchema", "companyUpdateSchema", "companySearchSchema"}
    ELSE {"companyNewSchema", "companyUpdateSchema"}

\* +v for the text of a natural number
ToNumber(v) == IF v.type = "string" /\ IsNatural(v.val) THEN Num(Natural(v.val)) ELSE v

\* if (query.minEmployees !== undefined) query.minEmployees = +query.minEmployees,
\* and likewise maxEmployees
Converted(query) ==
    [i \in 1..Len(query) |->
        IF query[i].key \in {"minEmployees", "maxEmployees"}
        THEN [key |-> query[i].key, val |-> ToNumber(query[i].val)]
        ELSE query[i]]

\* jsonschema.validate(query, companySearchSchema).valid.  The schema file
\* is not part of the source: a key other than the filters is rejected,
\* and whether the text of a number passes for the number is left open.
CompanySearchValid(query) ==
    IF \E i \in 1..Len(query) :
          query[i].key \notin {"name", "minEmployees", "maxEmployees"}
    THEN {FALSE}
    ELSE IF \E i \in 1..Len(query) : query[i].key # "name" /\ query[i].val.type = "string"
    THEN {TRUE, FALSE}
    ELSE {TRUE}

\* GET /companies: src/Jobly/routes/companies.js:67-84 (route "Jobly") and
\* src/unnamed/part_000:417-437 (route "part_000"), with Company.findAll of
\* the revision rev.  The second module names companySearchSchema without
\* having required it: evaluating the name throws a ReferenceError, which
\* the catch hands to next.
GetCompanies(route, rev, req) ==
    LET query == IF route = "Jobly" THEN Converted(req) ELSE req
    IN  /\ call = NoCall
        /\ call' = [op |-> "GET /companies", route |-> route, rev |-> rev,
                    query |-> req]
        /\ IF "companySearchSchema" \notin Declared(route)
           THEN /\ outcome' = [error |-> "ReferenceError"]
                /\ dispatched' = <<>>
           ELSE \E valid \in CompanySearchValid(query) :
                   IF ~ valid
                   THEN /\ outcome' = [error |-> "BadRequestError"]
                        /\ dispatched' = <<>>
                   ELSE LET q == Company_findAll(rev, query)
                        IN  IF q.error # "none"
                            THEN /\ outcome' = [error |-> q.error]
                                 /\ dispatched' = <<>>
                            ELSE /\ dispatched' = <<[text |-> q.text, values |-> q.values]>>
                                 /\ \E res \in DbSelect(q.text, q.values,
                                                        Lex(<<"SELECT", WS, CompanyProjection,
                                                              WS, "FROM", WS, "companies">>),
                                                        companies, CompanyCols, "name") :
                                       outcome' =
                                          IF res.error # "none" THEN res
                                          ELSE [error |-> "none",
                                                body |-> IF route = "Jobly" \/ Len(query) = 0
                                                         THEN "companies"
                                                         ELSE "filteredCompanies",
                                                rows |-> [i \in 1..Len(res.rows) |->
                                                             CompanyRow(res.rows[i])]]
        /\ UNCHANGED <<store, jobSeq, writes>>

\* the properties of the body schemas, after the fields the handlers' doc
\* comments name
Properties(schema) ==
    CASE schema = "jobNewSchema" -> {"title", "salary", "equity", "companyHandle"}
      [] schema = "jobUpdateSchema" -> {"title", "salary", "equity"}
      [] schema = "companyNewSchema" ->
            {"handle", "name", "description", "numEmployees", "logoUrl"}
      [] schema = "companyUpdateSchema" ->
            {"name", "description", "numEmployees", "logoUrl"}
      [] schema = "userNewSchema" ->
            {"username", "password", "firstName", "lastName", "email", "isAdmin"}
      [] OTHER -> {"password", "firstName", "lastName", "email", "isAdmin"}

\* jsonschema.validate(req.body, schema).valid.  The schema files are not
\* part of the source: a key other than the properties is rejected, and
\* whether an equity passes as a number or as a string is left open.
BodyValid(schema, body) ==
    IF \E i \in 1..Len(body) : body[i].key \notin Properties(schema)
    THEN {FALSE}
    ELSE IF HasKey(body, "equity")
    THEN {TRUE, FALSE}
    ELSE {TRUE}

\* throw new BadRequestError(errs), caught and handed to next
Rejected(op, body) ==
    /\ call = NoCall
    /\ call' = [op |-> op, data |-> body]
    /\ outcome' = [error |-> "BadRequestError"]
    /\ dispatched' = <<>>
    /\ UNCHANGED <<store, jobSeq, writes>>

\* POST /jobs, src/routes/jobs.js:26-39, with Job.create of the revision rev
PostJobs(rev, body) ==
    \E valid \in BodyValid("jobNewSchema", body) :
       IF ~ valid THEN Rejected("POST /jobs", body) ELSE JobCreate(rev, body)

\* PATCH /jobs/:id, src/routes/jobs.js:109-122; id is the text of the path
PatchJob(id, body) ==
    \E valid \in BodyValid("jobUpdateSchema", body) :
       IF ~ valid THEN Rejected("PATCH /jobs/:id", body) ELSE JobUpdate(id, body)

\* POST /companies, src/Jobly/routes/companies.js:28-41 and
\* src/unnamed/part_000:361-374
PostCompanies(route, body) ==
    \E valid \in BodyValid("companyNewSchema", body) :
       IF ~ valid THEN Rejected("POST /companies", body) ELSE CompanyCreate(body)

\* PATCH /companies/:handle, src/Jobly/routes/companies.js:114-127 and
\* src/unnamed/part_000:467-480
PatchCompany(route, handle, body) ==
    \E valid \in BodyValid("companyUpdateSchema", body) :
       IF ~ valid THEN Rejected("PATCH /companies/:handle", body)
       ELSE CompanyUpdate(handle, body)

\* POST /users, src/routes/jobs.js:168-182; the token of the answer is left
\* out
PostUsers(body) ==
    \E valid \in BodyValid("userNewSchema", body) :
       IF ~ valid THEN Rejected("POST /users", body) ELSE UserRegister(body)

\* PATCH /users/:username, src/routes/jobs.js:257-270
PatchUser(username, body) ==
    \E valid \in BodyValid("userUpdateSchema", body) :
       IF ~ valid THEN Rejected("PATCH /users/:username", body)
       ELSE UserUpdate(username, body)

\* the caller takes the result; the next call starts from the store as
\* the last one left it
Return ==
    /\ call # NoCall
    /\ call' = NoCall
    /\ outcome' = [error |-> "none"]
    /\ dispatched' = <<>>
    /\ UNCHANGED <<store, jobSeq, writes>>

Next ==
    \/ \E rev \in {"models", "part_001"}, sc \in CompanyCriteria :
          CompanyFindAll(rev, sc)
    \/ \E rev \in {"models", "Jobly"}, sc \in JobCriteria :
          JobFindAll(rev, sc)
    \/ \E handle \in {c1, missing}, data \in CompanyData :
          CompanyUpdate(handle, data)
    \/ \E id \in {Num(1), Num(0)}, data \in JobData :
          JobUpdate(id, data)
    \/ \E username \in {u1, missing}, data \in UserData :
          UserUpdate(username, data)
    \/ \E handle \in {c1, missing} : CompanyGet(handle)
    \/ \E rev \in {"models", "Jobly"}, id \in {Num(1), Num(0), missing} : JobGet(rev, id)
    \/ \E username \in {u1, missing} : UserGet(username)
    \/ \E handle \in {c1, missing} : CompanyRemove(handle)
    \/ \E id \in {Num(1), Num(0)} : JobRemove(id)
    \/ \E username \in {u1, missing} : UserRemove(username)
    \/ Return

Spec == Init /\ [][Next]_vars

\* create calls one after the other, and get
NextCreate ==
    \/ \E data \in CompanyNew : CompanyCreate(data)
    \/ \E rev \in {"models", "Jobly"}, data \in JobNew : JobCreate(rev, data)
    \/ \E data \in UserNew : UserRegister(data)
    \/ \E handle \in {c1, c3} : CompanyGet(handle)
    \/ \E rev \in {"models", "Jobly"}, id \in {Num(1), Num(3), Num(4)} : JobGet(rev, id)
    \/ \E username \in {u1, u2} : UserGet(username)
    \/ Return

SpecCreate == Init /\ [][NextCreate]_vars

\* sqlForPartialUpdate alone, on every pair of mappings within the bounds
NextSql ==
    \/ \E dataToUpdate \in Mappings(SqlEntries, MaxFields), jsToSql \in SqlAliases :
          SqlCall(dataToUpdate, jsToSql)
    \/ Return

SpecSql == Init /\ [][NextSql]_vars

(***************************************************************************)
(* The builders on their own: sqlForPartialUpdate and findAll, the filter  *)
(* mapping built in any insertion order                                    *)
(***************************************************************************)
\* the sequences that hold the elements of seq in any order
Orderings(seq) ==
    {[i \in 1..Len(seq) |-> seq[p[i]]] :
        p \in {f \in [1..Len(seq) -> 1..Len(seq)] :
                  \A i, j \in 1..Len(seq) : i # j => f[i] # f[j]}}

\* the filter mappings of Company.findAll, keys inserted in any order
CompanyCriteriaAnyOrder == UNION {Orderings(sc) : sc \in CompanyCriteria}

\* the filter mappings of Job.findAll, keys inserted in any order, and the
\* mapping of the test "fails with invalid search criteria"
JobCriteriaAnyOrder ==
    UNION {Orderings(sc) : sc \in JobCriteria}
        \cup {<<[key |-> "wrong", val |-> Num(80)]>>}

\* req.query of GET /jobs: the values are the texts of the query string
JobQueries ==
    {t \o lo \o e :
        t \in Optional("title", {Str(<<"o", "b", "1">>)}),
        lo \in Optional("minSalary", {Str(<<"2">>)}),
        e \in Optional("hasEquity", {Str(<<"t", "r", "u", "e">>)})}
        \cup {<<[key |-> "wrong", val |-> Str(<<"8">>)]>>}

NextBuild ==
    \/ \E dataToUpdate \in Mappings(SqlEntries, MaxFields), jsToSql \in SqlAliases :
          SqlCall(dataToUpdate, jsToSql)
    \/ \E rev \in {"models", "part_001"}, sc \in CompanyCriteriaAnyOrder :
          CompanyFindAll(rev, sc)
    \/ \E rev \in {"models", "Jobly"}, sc \in JobCriteriaAnyOrder :
          JobFindAll(rev, sc)
    \/ \E rev \in {"models", "Jobly"}, query \in JobQueries : GetJobs(rev, query)
    \/ Return

SpecBuild == Init /\ [][NextBuild]_vars

\* req.query of GET /companies: the values are the texts of the query
\* string
CompanyQueries ==
    {n \o lo \o hi :
        n \in Optional("name", {Str(<<"c">>)}),
        lo \in Optional("minEmployees", {Str(<<"1", "0">>), Str(<<"1">>)}),
        hi \in Optional("maxEmployees", {Str(<<"9">>), Str(<<"2">>)})}
        \cup {<<[key |-> "wrong", val |-> Str(<<"8">>)]>>}

\* a body with a key that no schema has
Unknown == <<[key |-> "wrong", val |-> Num(8)]>>

\* applications and the reads of them
NextApply ==
    \/ \E username \in {u1, missing}, jobId \in {Num(1), Num(2), Num(0)} :
          UserApplyForJob(username, jobId)
    \/ \E username \in {u1, missing}, id \in {Str(<<"1">>), Str(<<"2">>), Str(<<"0">>)} :
          PostApplication(username, id)
    \/ \E username \in {u1, missing} : UserGet(username)
    \/ Return

SpecApply == Init /\ [][NextApply]_vars

(***************************************************************************)
(* Two calls at once.  Node runs one handler at a time and switches at an  *)
(* await: each db.query and the bcrypt.hash of User.register is one step,  *)
(* and the steps of the two calls interleave in any order.  Here call and  *)
(* outcome hold one entry per call, and dispatched is the statements of    *)
(* both in the order the database received them.                          *)
(***************************************************************************)
Procs == {1, 2}

\* Whether the table declares its key column unique.  The tables'
\* definitions are not part of the source, so both are possible.
TableKey == {TRUE, FALSE}

InitRace ==
    /\ Stored
    /\ call = [p \in Procs |-> NoCall]
    /\ outcome = [p \in Procs |-> [error |-> "none"]]
    /\ dispatched = <<>>

\* what a model's create works on
CreateOf(op) ==
    IF op = "Company.create"
    THEN [table |-> "companies", rows |-> companies, cols |-> CompanyCols,
          keyCol |-> "handle", check |-> Company_duplicateCheck,
          insert |-> Company_insert]
    ELSE [table |-> "users", rows |-> users, cols |-> UserCols,
          keyCol |-> "username", check |-> User_duplicateCheck,
          insert |-> User_insert]

\* the values of the INSERT of Company.create and of User.register
InsertValues(op, data) ==
    IF op = "Company.create"
    THEN <<Get(data, "handle"), Get(data, "name"), Get(data, "description"),
           Get(data, "numEmployees"), Get(data, "logoUrl")>>
    ELSE <<Get(data, "username"), Hash(Get(data, "password")), Get(data, "firstName"),
           Get(data, "lastName"), Get(data, "email"), Get(data, "isAdmin")>>

\* the call p is made: Company.create(data) or User.register(data)
Begin(p, op, data) ==
    /\ call[p] = NoCall
    /\ call' = [call EXCEPT ![p] = [op |-> op, data |-> data, pc |-> "duplicateCheck"]]
    /\ UNCHANGED <<store, jobSeq, writes, outcome, dispatched>>

\* const duplicateCheck = await db.query(...); if (duplicateCheck.rows[0])
\* throw new BadRequestError(...)
DuplicateCheck(p) ==
    /\ call[p] # NoCall
    /\ call[p].pc = "duplicateCheck"
    /\ LET c == CreateOf(call[p].op)
           key == Get(call[p].data, c.keyCol)
       IN  /\ dispatched' = Append(dispatched, Statement(c.check, <<key>>))
           /\ \E duplicateCheck \in DbSelectWhere(c.check, <<key>>, c.table, c.rows, c.cols) :
                 IF duplicateCheck.error # "none"
                 THEN /\ outcome' = [outcome EXCEPT ![p] = duplicateCheck]
                      /\ call' = [call EXCEPT ![p].pc = "done"]
                 ELSE IF Duplicate(duplicateCheck)
                 THEN /\ outcome' = [outcome EXCEPT ![p] = [error |-> "BadRequestError"]]
                      /\ call' = [call EXCEPT ![p].pc = "done"]
                 ELSE /\ call' = [call EXCEPT ![p].pc =
                                     IF call[p].op = "User.register" THEN "hash"
                                     ELSE "insert"]
                      /\ UNCHANGED outcome
    /\ UNCHANGED <<store, jobSeq, writes>>

\* const hashedPassword = await bcrypt.hash(password, BCRYPT_WORK_FACTOR)
HashStep(p) ==
    /\ call[p] # NoCall
    /\ call[p].pc = "hash"
    /\ call' = [call EXCEPT ![p].pc = "insert"]
    /\ UNCHANGED <<store, jobSeq, writes, outcome, dispatched>>

\* const result = await db.query(`INSERT ...`); return result.rows[0]
Insert(p) ==
    /\ call[p] # NoCall
    /\ call[p].pc = "insert"
    /\ LET c == CreateOf(call[p].op)
           values == InsertValues(call[p].op, call[p].data)
           result == DbInsert(c.insert, values, c.table, c.rows, c.cols, <<>>)
       IN  /\ dispatched' = Append(dispatched, Statement(c.insert, values))
           /\ call' = [call EXCEPT ![p].pc = "done"]
           /\ \E unique \in TableKey :
                 IF result.error # "none"
                 THEN /\ outcome' = [outcome EXCEPT ![p] = result]
                      /\ UNCHANGED <<companies, users>>
                 ELSE IF unique /\ \E r \in c.rows : Matches(r, c.keyCol, values[1])
                 THEN /\ outcome' = [outcome EXCEPT ![p] = [error |-> "DbError"]]
                      /\ UNCHANGED <<companies, users>>
                 ELSE /\ outcome' = [outcome EXCEPT ![p] =
                                        [error |-> "none",
                                         row |-> CHOOSE r \in result.rows : TRUE]]
                      /\ companies' = IF c.table = "companies" THEN result.table
                                      ELSE companies
                      /\ users' = IF c.table = "users" THEN result.table ELSE users
    /\ UNCHANGED <<jobs, applications, jobSeq, writes>>

NextRace ==
    \/ \E p \in Procs, data \in CompanyNew : Begin(p, "Company.create", data)
    \/ \E p \in Procs, data \in UserNew : Begin(p, "User.register", data)
    \/ \E p \in Procs : DuplicateCheck(p)
    \/ \E p \in Procs : HashStep(p)
    \/ \E p \in Procs : Insert(p)

SpecRace == InitRace /\ [][NextRace]_vars

\* the route handlers, over stores that removals have changed
NextRoutes ==
    \/ \E id \in {Str(<<"1">>), Str(<<"2">>), Str(<<"0">>)} : DeleteJob(id)
    \/ \E rev \in {"models", "Jobly"}, query \in JobQueries : GetJobs(rev, query)
    \/ \E route \in {"Jobly", "part_000"}, rev \in {"models", "part_001"},
          query \in CompanyQueries : GetCompanies(route, rev, query)
    \/ \E rev \in {"models", "Jobly"}, body \in JobNew \cup {Unknown} : PostJobs(rev, body)
    \/ \E id \in {Str(<<"1">>), Str(<<"0">>)},
          body \in {<<[key |-> "salary", val |-> Num(1)]>>,
                    <<[key |-> "equity", val |-> Str(<<"0", ".", "3">>)]>>, Unknown} :
          PatchJob(id, body)
    \/ \E route \in {"Jobly", "part_000"}, body \in CompanyNew \cup {Unknown} :
          PostCompanies(route, body)
    \/ \E route \in {"Jobly", "part_000"}, handle \in {c1, missing},
          body \in {<<[key |-> "numEmployees", val |-> Num(3)]>>, Unknown} :
          PatchCompany(route, handle, body)
    \/ \E body \in UserNew \cup {Unknown} : PostUsers(body)
    \/ \E username \in {u1, missing},
          body \in {<<[key |-> "firstName", val |-> Str(<<"F">>)]>>, Unknown} :
          PatchUser(username, body)
    \/ \E id \in {Num(1), Num(2)} : JobRemove(id)
    \/ Return

SpecRoutes == Init /\ [][NextRoutes]_vars

(***************************************************************************)
(* Properties of sqlForPartialUpdate (under SpecSql)                       *)
(***************************************************************************)
SqlCalled == call.op = "sqlForPartialUpdate"

\* the assignments of a SET fragment: its pieces between ", "
Assignments(setCols) == SplitBy(setCols, <<",", WS>>)

\* an assignment "<column>"=$<index>
IsAssignment(a) ==
    /\ Len(a) = 5
    /\ a[1] = "\"" /\ a[3] = "\"" /\ a[4] = "="
    /\ IsParam(a[5])

\* C1: for a non-empty field mapping with N keys, setCols is exactly N
\* assignments joined by ", ", values has length N, the i-th assignment
\* uses placeholder $i, and values[i] is the value of the i-th key in
\* iteration order.
C1_Assignments ==
    (SqlCalled /\ Len(call.dataToUpdate) > 0) =>
        LET N == Len(call.dataToUpdate)
            parts == Assignments(outcome.setCols)
        IN  /\ outcome.error = "none"
            /\ Len(parts) = N
            /\ Len(outcome.values) = N
            /\ \A i \in 1..N :
                  /\ IsAssignment(parts[i])
                  /\ ParamIndex(parts[i][5]) = i
                  /\ outcome.values[i] = call.dataToUpdate[i].val

C1_Witness ==
    /\ SqlCalled
    /\ Len(call.dataToUpdate) = MaxFields
    /\ outcome.error = "none"
    /\ Len(Assignments(outcome.setCols)) = MaxFields

\* C2: with an empty field mapping the call fails with BadRequestError
\* "No data", whatever the alias mapping, and returns no fragment.
C2_NoData ==
    (SqlCalled /\ Len(call.dataToUpdate) = 0) =>
        /\ outcome.error = "BadRequestError"
        /\ outcome.message = "No data"
        /\ DOMAIN outcome = {"error", "message"}

C2_Witness ==
    /\ SqlCalled
    /\ Len(call.dataToUpdate) = 0
    /\ DOMAIN call.jsToSql # {}
    /\ outcome.error = "BadRequestError"

\* the alias mapping without the entries of keys that are not fields
OnFields(jsToSql, dataToUpdate) ==
    [k \in {x \in DOMAIN jsToSql :
               \E i \in 1..Len(dataToUpdate) : dataToUpdate[i].key = x} |->
        jsToSql[k]]

\* C3 as stated: the quoted column of each key is aliases[key] when the
\* alias mapping has that key, and the key itself otherwise.
C3_AliasWheneverPresent ==
    (SqlCalled /\ Len(call.dataToUpdate) > 0) =>
        \A i \in 1..Len(call.dataToUpdate) :
            LET key == call.dataToUpdate[i].key
            IN  Assignments(outcome.setCols)[i][2] =
                    IF key \in DOMAIN call.jsToSql THEN call.jsToSql[key] ELSE key

\* C3, amended: the quoted column of each key is aliases[key] when the
\* alias mapping has that key with a non-empty column name, and the key
\* itself otherwise (also when the alias is the empty string); alias
\* entries of keys that are not fields change nothing in the result.
C3_AliasWhenTruthy ==
    (SqlCalled /\ Len(call.dataToUpdate) > 0) =>
        /\ \A i \in 1..Len(call.dataToUpdate) :
              LET key == call.dataToUpdate[i].key
              IN  Assignments(outcome.setCols)[i][2] =
                      IF key \in DOMAIN call.jsToSql /\ call.jsToSql[key] # ""
                      THEN call.jsToSql[key]
                      ELSE key
        /\ outcome = sqlForPartialUpdate(call.dataToUpdate,
                                         OnFields(call.jsToSql, call.dataToUpdate))

C3_Witness ==
    /\ SqlCalled
    /\ Len(call.dataToUpdate) = 2
    /\ call.dataToUpdate[1].key \in DOMAIN call.jsToSql
    /\ call.jsToSql[call.dataToUpdate[1].key] = "col_x"
    /\ call.dataToUpdate[2].key \notin DOMAIN call.jsToSql
    /\ \E k \in DOMAIN call.jsToSql :
          /\ k # call.dataToUpdate[1].key
          /\ call.jsToSql[k] = "first_name"
    /\ Assignments(outcome.setCols)[1][2] = "col_x"
    /\ Assignments(outcome.setCols)[2][2] = call.dataToUpdate[2].key

(***************************************************************************)
(* Properties of the models (under Spec)                                   *)
(***************************************************************************)
UpdateCalled(c) == c.op \in {"Company.update", "Job.update", "User.update"}

\* C4: Company.update, Job.update and User.update with an empty data
\* mapping fail with BadRequestError before any statement is dispatched,
\* and the stored rows are unchanged.
C4_EmptyUpdateRejected ==
    [][(UpdateCalled(call') /\ Len(call'.data) = 0) =>
          /\ outcome'.error = "BadRequestError"
          /\ dispatched' = <<>>
          /\ store' = store]_vars

C4_Witness ==
    /\ call.op = "User.update"
    /\ Len(call.data) = 0
    /\ writes > 0
    /\ outcome.error = "BadRequestError"
    /\ dispatched = <<>>

FindAllCalled == call.op \in {"Company.findAll", "Job.findAll"}

OfCompany == call.op = "Company.findAll"

\* the projection and FROM clause of findAll, and its fixed sort
BaseOf(c) ==
    IF c.op = "Company.findAll"
    THEN <<"SELECT", WS, CompanyProjection, WS, "FROM", WS, "companies">>
    ELSE JobSelectFrom

SortColumn(c) == IF c.op = "Company.findAll" THEN "name" ELSE "title"

\* the rows findAll returns hold every stored row once, in the order of
\* the sort column
AllRowsSorted ==
    LET rows == outcome.rows
        n == Len(rows)
        col == SortColumn(call)
    IN  /\ n = Cardinality(IF OfCompany THEN companies ELSE jobs)
        /\ IF OfCompany
           THEN {rows[i].handle : i \in 1..n} = {r.handle : r \in companies}
           ELSE {rows[i].id : i \in 1..n} = {r.id : r \in jobs}
        /\ \A i, j \in 1..n : i < j => ~ CharsLess(rows[j][col].val, rows[i][col].val)

\* C5: with no filter key supplied the dispatched statement has no WHERE
\* clause, its value list is empty, and it returns all rows in the fixed
\* sort order.
C5_NoFilter ==
    (FindAllCalled /\ Len(call.searchCriteria) = 0) =>
        /\ Len(dispatched) = 1
        /\ \A i \in 1..Len(dispatched[1].text) : dispatched[1].text[i] # "WHERE"
        /\ dispatched[1].values = <<>>
        /\ outcome.error = "none"
        /\ AllRowsSorted

\* one predicate as findAll writes it: column, operator and a placeholder
\* or the literal 0, blank-separated, possibly followed by blanks
IsPredicate(piece) ==
    /\ Len(piece) >= 5
    /\ piece[1] \in {"num_employees", "name", "title", "salary", "equity"}
    /\ piece[2] = WS
    /\ piece[3] \in {">=", "<=", ">", "ILIKE"}
    /\ piece[4] = WS
    /\ IsParam(piece[5]) \/ piece[5] = "0"
    /\ \A i \in 6..Len(piece) : piece[i] = WS

\* C6: the dispatched statement is the base projection, then nothing or
\* " WHERE " and the predicates joined by " AND ", then the fixed sort
\* " ORDER BY name" (companies) or " ORDER BY title" (jobs).
C6_StatementShape ==
    (FindAllCalled /\ Len(dispatched) = 1) =>
        LET text == dispatched[1].text
            n == Len(text)
            base == BaseOf(call)
            b == Len(base)
            mid == SubSeq(text, b + 1, n - 6)
        IN  /\ n >= b + 6
            /\ SubSeq(text, 1, b) = base
            /\ SubSeq(text, n - 5, n) = <<WS, "ORDER", WS, "BY", WS, SortColumn(call)>>
            /\ \/ Len(mid) = 0
               \/ /\ Len(mid) > 3
                  /\ SubSeq(mid, 1, 3) = <<WS, "WHERE", WS>>
                  /\ LET preds == SplitBy(SubSeq(mid, 4, Len(mid)), <<WS, "AND", WS>>)
                     IN  \A i \in 1..Len(preds) : IsPredicate(preds[i])

\* the filter key a predicate on column col with operator op stands for
KeyOf(col, op) ==
    CASE col = "num_employees" /\ op = ">=" -> "minEmployees"
      [] col = "num_employees" /\ op = "<=" -> "maxEmployees"
      [] col = "name" /\ op = "ILIKE" -> "name"
      [] col = "title" /\ op = "ILIKE" -> "title"
      [] col = "salary" /\ op = ">=" -> "minSalary"
      [] col = "equity" /\ op = ">" -> "hasEquity"
      [] OTHER -> "none"

\* the keys that have a predicate in text
KeysIn(text) ==
    {KeyOf(text[i], text[i + 2]) : i \in 1..(Len(text) - 2)} \ {"none"}

\* value is what the statement binds for the supplied value of key:
\* the value itself, for a free-text key the value between two wrapping
\* characters
BoundFor(key, supplied, value) ==
    IF key \in {"name", "title"}
    THEN /\ supplied.type = "string" /\ value.type = "string"
         /\ Len(value.val) = Len(supplied.val) + 2
         /\ SubSeq(value.val, 2, Len(value.val) - 1) = supplied.val
    ELSE /\ supplied.type = value.type
         /\ supplied = value

\* C7: the placeholders of the WHERE clause are $1..$k in this order,
\* k is the length of the value list, the predicate holding $i is the one
\* of the key whose value is the i-th element of the list, and a key that
\* is absent has no predicate.
C7_Numbering ==
    (FindAllCalled /\ Len(dispatched) = 1) =>
        LET text == dispatched[1].text
            values == dispatched[1].values
            params == SelectSeq(text, IsParam)
            at(i) == CHOOSE pos \in 1..Len(text) :
                        IsParam(text[pos]) /\ ParamIndex(text[pos]) = i
        IN  /\ Len(params) = Len(values)
            /\ \A i \in 1..Len(params) : ParamIndex(params[i]) = i
            /\ \A i \in 1..Len(values) :
                  /\ at(i) > 4
                  /\ LET key == KeyOf(text[at(i) - 4], text[at(i) - 2])
                     IN  BoundFor(key, Get(call.searchCriteria, key), values[i])
            /\ \A key \in KeysIn(text) : Present(Get(call.searchCriteria, key))

C7_Witness ==
    /\ OfCompany
    /\ call.rev = "part_001"
    /\ ~ Present(Get(call.searchCriteria, "minEmployees"))
    /\ Present(Get(call.searchCriteria, "maxEmployees"))
    /\ Truthy(Get(call.searchCriteria, "name"))
    /\ Len(dispatched) = 1
    /\ Len(dispatched[1].values) = 2
    /\ KeysIn(dispatched[1].text) = {"maxEmployees", "name"}

\* chars occurs in text when case is ignored
Contains(text, chars) ==
    \E i \in 1..(Len(text) - Len(chars) + 1) :
        SubSeq(LowerAll(text), i, i + Len(chars) - 1) = LowerAll(chars)

\* C8: the value bound for a free-text filter v is exactly "%" + v + "%",
\* so that a stored text matches whenever it contains v, case ignored:
\* with this filter alone every such row is returned.
C8_PatternBound ==
    LET key == SortColumn(call)
        v == Get(call.searchCriteria, key)
    IN  (FindAllCalled /\ Present(v) /\ outcome.error # "BadRequestError") =>
            /\ Len(dispatched) = 1
            /\ \E i \in 1..Len(dispatched[1].values) :
                  /\ dispatched[1].values[i].type = "string"
                  /\ dispatched[1].values[i].val = <<"%">> \o v.val \o <<"%">>
            /\ Len(call.searchCriteria) = 1 =>
                  /\ outcome.error = "none"
                  /\ \A r \in (IF OfCompany THEN companies ELSE jobs) :
                        Contains(r[key].val, v.val) =>
                            \E i \in 1..Len(outcome.rows) :
                                outcome.rows[i][key] = r[key]

\* C9: Company.findAll with minEmployees and maxEmployees both supplied
\* and minEmployees > maxEmployees fails with BadRequestError before any
\* statement is dispatched.
C9_RangeRejected ==
    LET lo == Get(call.searchCriteria, "minEmployees")
        hi == Get(call.searchCriteria, "maxEmployees")
    IN  (OfCompany /\ lo.type = "number" /\ hi.type = "number" /\ lo.val > hi.val) =>
            /\ outcome.error = "BadRequestError"
            /\ dispatched = <<>>

C9_Witness ==
    /\ OfCompany
    /\ call.rev = "models"
    /\ Len(call.searchCriteria) = 3
    /\ Get(call.searchCriteria, "minEmployees") = Num(2)
    /\ Get(call.searchCriteria, "maxEmployees") = Num(1)
    /\ outcome.error = "BadRequestError"
    /\ dispatched = <<>>

\* the mapping without the entry of key
Without(obj, key) == SelectSeq(obj, LAMBDA e : e.key # key)

SuppliedFalse(v) == v.type = "boolean" /\ v.val = FALSE

\* C10: Job.findAll with hasEquity supplied as false dispatches the same
\* statement text and value list as with hasEquity omitted, whatever the
\* other filters are.
C10_FalseAsOmitted ==
    (call.op = "Job.findAll" /\ SuppliedFalse(Get(call.searchCriteria, "hasEquity"))) =>
        LET q == Job_findAll(call.rev, Without(call.searchCriteria, "hasEquity"))
        IN  dispatched = <<[text |-> q.text, values |-> q.values]>>

C10_Witness ==
    /\ call.op = "Job.findAll"
    /\ call.rev = "Jobly"
    /\ Len(call.searchCriteria) = 3
    /\ SuppliedFalse(Get(call.searchCriteria, "hasEquity"))
    /\ Len(dispatched) = 1
    /\ KeysIn(dispatched[1].text) = {"title", "minSalary"}

(***************************************************************************)
(* Properties of the builders (under SpecBuild)                            *)
(***************************************************************************)
\* the order in which findAll tests the filter keys
DeclaredOrder(c) ==
    IF c.op = "Company.findAll"
    THEN <<"minEmployees", "maxEmployees", "name">>
    ELSE <<"title", "minSalary", "hasEquity">>

\* the filter keys of the predicates of text, in the order of the text
KeySeq(text) ==
    SelectSeq([i \in 1..(Len(text) - 2) |-> KeyOf(text[i], text[i + 2])],
              LAMBDA k : k # "none")

PositionIn(seq, x) == CHOOSE i \in 1..Len(seq) : seq[i] = x

\* the statement findAll of the revision of c builds for searchCriteria
FindAllOf(c, searchCriteria) ==
    IF c.op = "Company.findAll" THEN Company_findAll(c.rev, searchCriteria)
    ELSE Job_findAll(c.rev, searchCriteria)

\* C11: the predicates of the WHERE clause stand in the fixed declaration
\* order of the entity's predicates, and a filter mapping with the same
\* keys and values inserted in any other order gives the same statement
\* text and the same value list.
C11_DeclarationOrder ==
    (FindAllCalled /\ Len(dispatched) = 1) =>
        LET keys == KeySeq(dispatched[1].text)
            order == DeclaredOrder(call)
        IN  /\ \A i, j \in 1..Len(keys) :
                  i < j => PositionIn(order, keys[i]) < PositionIn(order, keys[j])
            /\ \A sc \in Orderings(call.searchCriteria) :
                  LET q == FindAllOf(call, sc)
                  IN  /\ q.error = "none"
                      /\ q.text = dispatched[1].text
                      /\ q.values = dispatched[1].values

C11_Witness ==
    /\ OfCompany
    /\ call.rev = "part_001"
    /\ Len(call.searchCriteria) = 3
    /\ call.searchCriteria[1].key = "name"
    /\ call.searchCriteria[2].key = "maxEmployees"
    /\ Len(dispatched) = 1
    /\ KeySeq(dispatched[1].text) = <<"minEmployees", "maxEmployees", "name">>
    /\ dispatched[1].values[1] = Get(call.searchCriteria, "minEmployees")

\* the filter mappings findAll of call c may be given
CriteriaOf(c) ==
    IF c.op = "Company.findAll" THEN CompanyCriteriaAnyOrder ELSE JobCriteriaAnyOrder

\* two filter mappings agree on the tests findAll makes on a value to
\* decide whether its predicate is written: name is truthy, hasEquity is
\* exactly true
SameTests(a, b) ==
    /\ Truthy(Get(a, "name")) <=> Truthy(Get(b, "name"))
    /\ EquityPredicate(Get(a, "hasEquity")) <=> EquityPredicate(Get(b, "hasEquity"))

\* C12 as stated: a field mapping with the same keys and aliases gives the
\* same SET fragment whatever its values, and a filter mapping with the
\* same keys gives the same statement text whatever its values.
C12_TextIgnoresValues ==
    /\ (SqlCalled /\ Len(call.dataToUpdate) > 0) =>
          \A other \in Mappings(SqlEntries, MaxFields) :
              ObjKeys(other) = ObjKeys(call.dataToUpdate) =>
                  sqlForPartialUpdate(other, call.jsToSql).setCols = outcome.setCols
    /\ (FindAllCalled /\ Len(dispatched) = 1) =>
          \A other \in CriteriaOf(call) :
              LET q == FindAllOf(call, other)
              IN  (ObjKeys(other) = ObjKeys(call.searchCriteria) /\ q.error = "none")
                      => q.text = dispatched[1].text

\* C12, amended: the same for sqlForPartialUpdate; for findAll the
\* statement text is the same for two filter mappings with the same keys
\* that agree on whether name is truthy and on whether hasEquity is
\* exactly true, whatever the values are otherwise.
C12_TextIgnoresBoundValues ==
    /\ (SqlCalled /\ Len(call.dataToUpdate) > 0) =>
          \A other \in Mappings(SqlEntries, MaxFields) :
              ObjKeys(other) = ObjKeys(call.dataToUpdate) =>
                  sqlForPartialUpdate(other, call.jsToSql).setCols = outcome.setCols
    /\ (FindAllCalled /\ Len(dispatched) = 1) =>
          \A other \in CriteriaOf(call) :
              LET q == FindAllOf(call, other)
              IN  (/\ ObjKeys(other) = ObjKeys(call.searchCriteria)
                   /\ SameTests(other, call.searchCriteria)
                   /\ q.error = "none")
                      => q.text = dispatched[1].text

C12_Witness ==
    /\ call.op = "Job.findAll"
    /\ call.rev = "Jobly"
    /\ Len(dispatched) = 1
    /\ Len(dispatched[1].values) = 2
    /\ \E other \in JobCriteriaAnyOrder :
          /\ ObjKeys(other) = ObjKeys(call.searchCriteria)
          /\ Get(other, "title") # Get(call.searchCriteria, "title")
          /\ Get(other, "minSalary") # Get(call.searchCriteria, "minSalary")
          /\ Job_findAll("Jobly", other).text = dispatched[1].text
          /\ Job_findAll("Jobly", other).values # dispatched[1].values

(***************************************************************************)
(* Keyed operations: get, update, remove, create                           *)
(***************************************************************************)
Entities == {"Company", "Job", "User"}

EntityOf(op) ==
    CHOOSE e \in Entities :
        op \in {e \o ".get", e \o ".update", e \o ".remove", e \o ".create"}

MethodOf(op) ==
    CHOOSE m \in {"get", "update", "remove", "create"} :
        \E e \in Entities : op = e \o "." \o m

KeyedOps == {e \o "." \o m : e \in Entities, m \in {"get", "update", "remove"}}

\* the stored rows of the entity, and the column that holds its key
TableOf(e) == IF e = "Company" THEN companies ELSE IF e = "Job" THEN jobs ELSE users

KeyColOf(e) == IF e = "Company" THEN "handle" ELSE IF e = "Job" THEN "id" ELSE "username"

RowsWithKey(e, key) == {row \in TableOf(e) : row[KeyColOf(e)] = key}

\* a step that calls get, update with non-empty data, or remove
KeyedCall ==
    /\ call = NoCall
    /\ call' # NoCall
    /\ call'.op \in KeyedOps
    /\ MethodOf(call'.op) = "update" => Len(call'.data) > 0

\* C13: get, update with non-empty data and remove on Company, Job and
\* User fail with NotFoundError whenever no row has the given key, and the
\* stored rows are then unchanged.
C13_NotFound ==
    [][(KeyedCall /\ RowsWithKey(EntityOf(call'.op), call'.key) = {})
          => (outcome'.error = "NotFoundError" /\ store' = store)]_vars

\* a step that calls op
Calls(op) == call = NoCall /\ call' # NoCall /\ call'.op = op

\* C14: Company.create with a handle that already exists fails with
\* BadRequestError and inserts nothing, so after any sequence of create
\* calls, one after the other, at most one company row exists per handle.
C14_OneRowPerHandle ==
    /\ [](\A a, b \in companies : a.handle = b.handle => a = b)
    /\ [][(Calls("Company.create")
             /\ RowsWithKey("Company", Get(call'.data, "handle")) # {})
            => (outcome'.error = "BadRequestError" /\ store' = store)]_vars

\* the second of two create calls for the same new handle is rejected
C14_Witness ==
    /\ call.op = "Company.create"
    /\ Get(call.data, "handle") = c3
    /\ outcome.error = "BadRequestError"
    /\ Cardinality(RowsWithKey("Company", c3)) = 1

\* row is the job an earlier Job.create(data) inserted
CreatedFrom(row, data) ==
    /\ row.id.val >= 3
    /\ row.title = Get(data, "title")
    /\ row.salary = Get(data, "salary")
    /\ row.equity = Coerce("numeric", Get(data, "equity"))
    /\ row.company_handle = Get(data, "companyHandle")

\* C15: calling Job.create twice with the same job data makes the second
\* call fail with BadRequestError.
C15_DuplicateJobRejected ==
    [][(Calls("Job.create") /\ \E row \in jobs : CreatedFrom(row, call'.data))
          => outcome'.error = "BadRequestError"]_vars

\* the column a field of data is stored in
ColumnOf(field) ==
    CASE field = "numEmployees" -> "num_employees"
      [] field = "logoUrl" -> "logo_url"
      [] field = "firstName" -> "first_name"
      [] field = "lastName" -> "last_name"
      [] field = "isAdmin" -> "is_admin"
      [] field = "companyHandle" -> "company_handle"
      [] OTHER -> field

TableName(e) == IF e = "Company" THEN "companies" ELSE IF e = "Job" THEN "jobs" ELSE "users"

\* the stored row the call c was keyed on, and that row as it is read back
StoredRow(c) == CHOOSE row \in RowsWithKey(EntityOf(c.op), c.key) : TRUE

Reread(c) == Returned(TableName(EntityOf(c.op)), StoredRow(c))

UpdateSucceeded == UpdateCalled(call) /\ outcome.error = "none"

\* C16 as stated: after update(key, data) succeeds on an existing row,
\* re-reading that row yields, for every field in data, exactly the value
\* supplied, and the value returned by update equals the re-read row.
C16_ExactRoundTrip ==
    UpdateSucceeded =>
        /\ \A i \in 1..Len(call.data) :
              /\ call.data[i].key \in DOMAIN Reread(call)
              /\ Reread(call)[call.data[i].key] = call.data[i].val
        /\ outcome.row = Reread(call)

\* the value read back for a supplied value: a number given for equity
\* comes back as its decimal string, everything else as it was given
ReadBack(field, v) ==
    IF field = "equity" /\ v.type = "number" THEN Str(Digits(v.val)) ELSE v

\* C16 (amended): after update(key, data) succeeds on an existing row,
\* re-reading that row yields, for every field in data but password, the
\* value supplied, a number supplied for equity as its decimal string; a
\* supplied password is stored hashed and is not part of the row read
\* back; the value returned by update equals the re-read row.
C16_RoundTrip ==
    UpdateSucceeded =>
        /\ \A i \in 1..Len(call.data) :
              LET field == call.data[i].key
                  v == call.data[i].val
              IN  IF field = "password"
                  THEN /\ field \notin DOMAIN Reread(call)
                       /\ StoredRow(call).password = Hash(v)
                  ELSE /\ field \in DOMAIN Reread(call)
                       /\ Reread(call)[field] = ReadBack(field, v)
        /\ outcome.row = Reread(call)

\* an update of equity, supplied as a number, read back as a string
C16_Witness ==
    /\ UpdateSucceeded
    /\ call.op = "Job.update"
    /\ Get(call.data, "equity") = Num(0)
    /\ Get(call.data, "title") = Str(<<"N">>)
    /\ Reread(call).equity = Str(<<"0">>)
    /\ Reread(call).title = Str(<<"N">>)

\* what the call c leaves alone in the rows before and the rows after:
\* the rows of other keys, and in the keyed row the columns not in cols
Framed(before, after, keyCol, key, cols) ==
    /\ {row \in after : row[keyCol] # key} = {row \in before : row[keyCol] # key}
    /\ \A new \in after :
          new[keyCol] = key =>
              \E old \in before :
                  /\ old[keyCol] = key
                  /\ \A col \in DOMAIN old \ cols : new[col] = old[col]
    /\ Cardinality(after) = Cardinality(before)

\* C17: a partial update changes only the provided fields of the row with
\* the given key: every field of that row that is absent from data, and
\* every other row, is left unchanged by Company.update, Job.update and
\* User.update.
C17_UpdateFrame ==
    [][(call = NoCall /\ UpdateCalled(call')) =>
          LET cols == {ColumnOf(call'.data[i].key) : i \in 1..Len(call'.data)}
              e == EntityOf(call'.op)
          IN  /\ e = "Company" => Framed(companies, companies', "handle", call'.key, cols)
              /\ e = "Job" => Framed(jobs, jobs', "id", call'.key, cols)
              /\ e = "User" => Framed(users, users', "username", call'.key, cols)
              /\ e # "Company" => companies' = companies
              /\ e # "Job" => jobs' = jobs
              /\ e # "User" => users' = users
              /\ applications' = applications]_vars

\* an update of one field of one job that changed the stored row
C17_Witness ==
    /\ UpdateSucceeded
    /\ call.op = "Job.update"
    /\ Len(call.data) = 1
    /\ call.data[1].key = "salary"
    /\ StoredRow(call).salary = Num(1)
    /\ StoredRow(call).title = Str(<<"J", "o", "b", "2">>)
    /\ Cardinality(jobs) = 2

\* the keys of the rows stored at the start
StoredAtStart(e) ==
    IF e = "Company" THEN {c1, c2} ELSE IF e = "Job" THEN {Num(1), Num(2)} ELSE {u1}

\* a row of that key was stored and a remove has deleted it
Removed(e, key) == key \in StoredAtStart(e) /\ RowsWithKey(e, key) = {}

RemoveSucceeds ==
    /\ call = NoCall
    /\ call' # NoCall
    /\ call'.op \in {"Company.remove", "Job.remove", "User.remove"}
    /\ outcome'.error = "none"

\* after holds the rows of before but the ones of that key
DeletedFrom(before, after, keyCol, key) ==
    after = {row \in before : row[keyCol] # key}

\* C18: after remove(key) succeeds, no row with that key exists: a
\* following lookup by that key returns zero rows and a following get,
\* update or remove of that key fails with NotFoundError, while all other
\* rows are unchanged.
C18_AfterRemove ==
    /\ [][RemoveSucceeds =>
             LET e == EntityOf(call'.op)
             IN  /\ e = "Company" => DeletedFrom(companies, companies', "handle", call'.key)
                 /\ e = "Job" => DeletedFrom(jobs, jobs', "id", call'.key)
                 /\ e = "User" => DeletedFrom(users, users', "username", call'.key)
                 /\ e # "Company" => companies' = companies
                 /\ e # "Job" => jobs' = jobs
                 /\ e # "User" => users' = users]_vars
    /\ [][(KeyedCall /\ Removed(EntityOf(call'.op), call'.key))
             => outcome'.error = "NotFoundError"]_vars

(***************************************************************************)
(* Search criteria that are not filters (under SpecBuild)                  *)
(***************************************************************************)
JobFilters == {"title", "minSalary", "hasEquity"}

\* C19: Job.findAll called with a search mapping that holds an
\* unrecognized key (for example {wrong: 80}) fails with BadRequestError.
C19_UnknownKeyRejected ==
    (/\ call.op = "Job.findAll"
     /\ \E i \in 1..Len(call.searchCriteria) :
           call.searchCriteria[i].key \notin JobFilters)
        => outcome.error = "BadRequestError"

\* the stored postings with equity greater than 0
WithEquity == {j \in jobs : j.equity.type # "null" /\ Tenths(j.equity) > 0}

\* C20: a GET /jobs request whose query string supplies hasEquity=true
\* returns only the postings whose equity is greater than 0, in title
\* order.
C20_HasEquityFilter ==
    (/\ call.op = "GET /jobs"
     /\ Len(call.query) = 1
     /\ call.query[1].key = "hasEquity"
     /\ call.query[1].val = Str(<<"t", "r", "u", "e">>))
        => /\ outcome.error = "none"
           /\ {outcome.rows[i].id : i \in 1..Len(outcome.rows)}
                 = {j.id : j \in WithEquity}
           /\ Len(outcome.rows) = Cardinality(WithEquity)
           /\ \A i, k \in 1..Len(outcome.rows) :
                 i < k => ~ CharsLess(outcome.rows[k].title.val,
                                      outcome.rows[i].title.val)

(***************************************************************************)
(* Route handlers (under SpecRoutes)                                       *)
(***************************************************************************)
\* C21: a DELETE /jobs/:id request from an admin for an existing job
\* removes that job from the store and responds with { deleted: id }; for
\* a job that does not exist it responds with status 404.
C21_DeleteJob ==
    [][Calls("DELETE /jobs/:id") =>
          IF \E row \in jobs : Matches(row, "id", call'.key)
          THEN /\ outcome'.error = "none"
               /\ DeletedFrom(jobs, jobs', "id", Coerce("integer", call'.key))
          ELSE outcome'.error = "NotFoundError"]_vars

(***************************************************************************)
(* The statement of update (under Spec)                                    *)
(***************************************************************************)
\* the value dispatched for a field of data: the hash for a password
Dispatched(entry) == IF entry.key = "password" THEN Hash(entry.val) ELSE entry.val

\* C22: in Company.update, Job.update and User.update with N fields in
\* data, the row key is bound to placeholder $(N+1): the WHERE clause
\* refers to $(N+1) and the value list dispatched is the N field values in
\* order followed by the key as its last element.
C22_KeyPlaceholder ==
    (UpdateCalled(call) /\ Len(call.data) > 0) =>
        /\ Len(dispatched) = 1
        /\ LET N == Len(call.data)
               words == Lex(dispatched[1].text)
               w == First(words, "WHERE")
               values == dispatched[1].values
           IN  /\ w > 0 /\ Len(words) >= w + 3
               /\ SubSeq(words, w + 1, w + 3)
                     = <<KeyColOf(EntityOf(call.op)), "=", "$" \o ToString(N + 1)>>
               /\ Len(values) = N + 1
               /\ values[N + 1] = call.key
               /\ \A i \in 1..N : values[i] = Dispatched(call.data[i])

\* an update of two fields that changed the row: the key is bound to $3
C22_Witness ==
    /\ UpdateSucceeded
    /\ call.op = "Company.update"
    /\ Len(call.data) = 2
    /\ Len(dispatched) = 1
    /\ dispatched[1].values[3] = c1
    /\ writes > 0

(***************************************************************************)
(* The flag predicate (under SpecBuild)                                    *)
(***************************************************************************)
EquityClause == <<"equity", WS, ">", WS, "0">>

\* the positions of text where the clause equity > 0 starts
EquityClauseAt(text) ==
    {pos \in 1..Len(text) :
        pos + 4 <= Len(text) /\ SubSeq(text, pos, pos + 4) = EquityClause}

\* C23: when hasEquity is exactly true, Job.findAll adds the fixed
\* predicate "equity > 0" with no bound parameter: the value list has the
\* same length as without the flag and the numbering of the other
\* predicates' placeholders is the same as without the flag.
C23_FixedEquityPredicate ==
    (call.op = "Job.findAll" /\ Get(call.searchCriteria, "hasEquity") = Bool(TRUE)) =>
        LET without == Job_findAll(call.rev, Without(call.searchCriteria, "hasEquity"))
        IN  /\ Len(dispatched) = 1
            /\ Cardinality(EquityClauseAt(dispatched[1].text)) = 1
            /\ EquityClauseAt(without.text) = {}
            /\ dispatched[1].values = without.values
            /\ SelectSeq(dispatched[1].text, IsParam) = SelectSeq(without.text, IsParam)
            /\ \A pos \in 1..Len(without.text) :
                  IsParam(without.text[pos]) =>
                      /\ dispatched[1].text[pos] = without.text[pos]
                      /\ SubSeq(dispatched[1].text, pos - 4, pos)
                            = SubSeq(without.text, pos - 4, pos)

\* the flag next to two bound filters: two values, three predicates
C23_Witness ==
    /\ call.op = "Job.findAll"
    /\ call.rev = "Jobly"
    /\ Get(call.searchCriteria, "hasEquity") = Bool(TRUE)
    /\ Len(call.searchCriteria) = 3
    /\ Len(dispatched) = 1
    /\ Len(dispatched[1].values) = 2
    /\ KeysIn(dispatched[1].text) = {"title", "minSalary", "hasEquity"}
    /\ outcome.error = "none"

\* the body or the query of a request
Input(c) ==
    IF "query" \in DOMAIN c THEN c.query
    ELSE IF "data" \in DOMAIN c THEN c.data ELSE <<>>

\* the requests that validate their input, and the ones among them whose
\* input no schema accepts
Validating ==
    {"POST /jobs", "PATCH /jobs/:id", "GET /jobs", "POST /companies",
     "PATCH /companies/:handle", "GET /companies", "POST /users",
     "PATCH /users/:username"}

FailsValidation(c) == HasKey(Input(c), "wrong")

\* C24: in every route that validates its input (POST and PATCH on jobs,
\* companies and users, GET / on jobs and companies), a request whose body
\* or query fails schema validation ends with BadRequestError passed to
\* next and the data-access function is never called, so nothing is read
\* from or written to the store.
C24_InvalidRejected ==
    [][(call = NoCall /\ FailsValidation(call'))
          => /\ call'.op \in Validating
             /\ outcome'.error = "BadRequestError"
             /\ dispatched' = <<>>
             /\ store' = store]_vars

\* the number a query-string value stands for
Numeric(v) == Natural(v.val)

\* C25: a GET /companies request whose query string supplies minEmployees
\* numerically greater than maxEmployees (for example minEmployees=10 and
\* maxEmployees=9) is rejected with a 400 client error before any query
\* executes, in every version of the companies route.
C25_RangeRejectedByRoute ==
    (/\ call.op = "GET /companies"
     /\ HasKey(call.query, "minEmployees") /\ HasKey(call.query, "maxEmployees")
     /\ Numeric(Get(call.query, "minEmployees")) > Numeric(Get(call.query, "maxEmployees")))
        => (outcome.error = "BadRequestError" /\ dispatched = <<>>)

\* the job ids of the applications of a user
AppliedTo(apps, username) == {a.job_id : a \in {b \in apps : b.username = username}}

Exists(rows, keyCol, key) == \E r \in rows : Matches(r, keyCol, key)

C30_AtMostOnce ==
    /\ \A a, b \in applications :
          (a.username = b.username /\ a.job_id = b.job_id) => a = b
    /\ (call.op = "User.get" /\ outcome.error = "none")
          => \A i, j \in 1..Len(outcome.row.applications) :
                outcome.row.applications[i] = outcome.row.applications[j] => i = j

\* the numbers of the placeholders written in a statement; one that a
\* keyword follows without a space, as in `$1ORDER BY`, is counted too
Placeholders(text) ==
    {ParamIndex(text[i]) : i \in {j \in 1..Len(text) : IsParam(text[j])}}

\* C27: every statement dispatched to the database by the create, findAll,
\* get, update and remove functions of Company, Job and User has its
\* placeholders numbered exactly 1..k where k is the length of the value
\* list passed with it (no placeholder without a value, no value without a
\* placeholder).
C27_PlaceholdersMatchValues ==
    \A i \in 1..Len(dispatched) :
       Placeholders(dispatched[i].text) = 1..Len(dispatched[i].values)

\* C28: Company.findAll never raises the range error when at most one of
\* minEmployees and maxEmployees is supplied, or when both are supplied with
\* minEmployees <= maxEmployees; in those cases it dispatches exactly one
\* statement.
C28_NoRangeErrorInRange ==
    LET lo == Get(call.searchCriteria, "minEmployees")
        hi == Get(call.searchCriteria, "maxEmployees")
    IN  (OfCompany /\ (lo = Undefined \/ hi = Undefined \/ lo.val <= hi.val)) =>
            /\ outcome.error # "BadRequestError"
            /\ Len(dispatched) = 1

C28_Witness ==
    /\ OfCompany
    /\ call.rev = "part_001"
    /\ Get(call.searchCriteria, "minEmployees") = Num(2)
    /\ Get(call.searchCriteria, "maxEmployees") = Num(2)
    /\ outcome.error = "none"
    /\ Len(dispatched) = 1

\* the keys that no stored row has before the first call
Fresh == {c3, u2}

CreateKey(c) == Get(c.data, CreateOf(c.op).keyCol)

\* the call has gone past its duplicate check
Passed(p) ==
    /\ call[p] # NoCall
    /\ \/ call[p].pc \in {"hash", "insert"}
       \/ call[p].pc = "done" /\ outcome[p].error # "BadRequestError"

\* C29: under any interleaving of two concurrent Company.create calls (or
\* two User.register calls) with the same key, exactly one call inserts a
\* row and the other fails with BadRequestError; the check-then-insert
\* sequence never lets both calls pass the duplicate check.
C29_OneInserts ==
    (/\ call[1] # NoCall /\ call[2] # NoCall
     /\ call[1].op = call[2].op
     /\ CreateKey(call[1]) = CreateKey(call[2])
     /\ CreateKey(call[1]) \in Fresh)
        => /\ ~ (Passed(1) /\ Passed(2))
           /\ (call[1].pc = "done" /\ call[2].pc = "done")
                 => \E p, q \in Procs :
                       /\ p # q
                       /\ outcome[p].error = "none"
                       /\ outcome[q].error = "BadRequestError"

====
